---- MODULE Spec2Model ----
(***************************************************************************)
(* Knowledge-base subsystem of the backend: the concept graph              *)
(* (services/knowledge/concept.py), the tag registry (tag.py), the entry   *)
(* manager and similarity search (service.py), the embedding adapters      *)
(* (embeddings.py, service.py) and the batch coordinator (batch.py), over  *)
(* the tables declared in models/knowledge.py.                             *)
(*                                                                         *)
(* Every handler is one action: requests are served one at a time.  The    *)
(* variable `result` holds the outcome the caller of the last handler got. *)
(* Two handlers, get_or_create and the reparenting update, are also given  *)
(* step by step, one action per query or commit, for requests that run     *)
(* concurrently; `requests` holds where each of them stands.               *)
(* A handler's `try` body is an operator returning the outcome and the     *)
(* tables it leaves; the `except` clause around it is a separate operator. *)
(***************************************************************************)
EXTENDS Integers, Sequences, FiniteSets, TLC

VARIABLES
    concepts,       \* table concepts: id -> [name, parent_id, level]
    nextConceptId,  \* concepts.id sequence
    tags,           \* table tags: id -> [name]
    nextTagId,      \* tags.id sequence
    entries,        \* table knowledge: id -> [topic, content, embedding, tags, concepts, last_accessed_at]
    nextEntryId,    \* knowledge.id sequence
    audits,         \* table knowledge_audit, in insertion order
    embCache,       \* EmbeddingsService.cache: hash(text) -> vector
    providerCalls,  \* calls of openai.Embedding.acreate issued so far
    now,            \* datetime.utcnow(), in ticks
    seenTagId,      \* history: per tag name, the tag id attached by the last entry creation
    requests,       \* requests served step by step: request -> [op, pc, its arguments and locals, out]
    result          \* what the caller of the last handler got: [op, arg, out]

dbVars == <<concepts, nextConceptId, tags, nextTagId, entries, nextEntryId, audits>>
vars == <<concepts, nextConceptId, tags, nextTagId, entries, nextEntryId, audits,
          embCache, providerCalls, now, seenTagId, requests, result>>

(***************************************************************************)
(* Bounds of the model                                                     *)
(***************************************************************************)
MaxConceptId == 3
MaxLevel == 2

\* Python None / SQL NULL for an integer key (`if obj_in.parent_id:` treats both as absent)
None == 0

ConceptNames == {"animal", "dog", "cat"}
ConceptIds == 1..MaxConceptId

(***************************************************************************)
(* Outcomes                                                                *)
(***************************************************************************)
\* `ret` is what the handler returned: a sequence of integers (ids, counts, a vector) or,
\* for the batch embedding operations, a sequence of vectors
Returned(ret) == [status |-> 200, detail |-> "", ret |-> ret]
HTTPException(status, detail) == [status |-> status, detail |-> detail, ret |-> <<>>]
\* an exception that is not an HTTPException (IntegrityError, ValueError, ...)
Raised(kind) == [status |-> 0, detail |-> kind, ret |-> <<>>]
IsException(out) == out.status # 200

Outcome(op, out) == [op |-> op, arg |-> [x \in {} |-> 0], out |-> out]
\* the outcome of a call together with its arguments, a record
OutcomeOf(op, arg, out) == [op |-> op, arg |-> arg, out |-> out]

EmptyFn == [x \in {} |-> None]

(***************************************************************************)
(* Concept graph                                                           *)
(***************************************************************************)
ConceptRow(name, parent_id, level) ==
    [name |-> name, parent_id |-> parent_id, level |-> level]

\* the row with the given name and parent, if any (query .filter(name, parent_id).first())
ConceptsAt(cs, name, parent_id) ==
    {c \in DOMAIN cs : cs[c].name = name /\ cs[c].parent_id = parent_id}

\* Column name: unique=True
ConceptNameTaken(cs, name, except) ==
    \E c \in DOMAIN cs \ {except} : cs[c].name = name

\* ConceptService.create_with_validation, the try body
ConceptCreateTry(cs, nid, name, parent_id) ==
    IF ConceptsAt(cs, name, parent_id) # {}
    THEN [out |-> HTTPException(400, "Concept already exists at this level"), cs |-> cs]
    ELSE IF parent_id # None /\ parent_id \notin DOMAIN cs
    THEN [out |-> HTTPException(404, "Parent concept not found"), cs |-> cs]
    ELSE LET level == IF parent_id # None THEN cs[parent_id].level + 1 ELSE 0
         IN IF ConceptNameTaken(cs, name, None)
            THEN [out |-> Raised("IntegrityError"), cs |-> cs]
            ELSE [out |-> Returned(<<nid>>),
                  cs |-> [c \in DOMAIN cs \cup {nid} |->
                            IF c = nid THEN ConceptRow(name, parent_id, level) ELSE cs[c]]]

\* ConceptService.create_with_validation, `except Exception`: rollback, raise 500
ConceptCreateExcept(r, cs) ==
    IF IsException(r.out)
    THEN [out |-> HTTPException(500, "Failed to create concept"), cs |-> cs]
    ELSE r

create_concept(name, parent_id) ==
    /\ nextConceptId <= MaxConceptId
    /\ LET r == ConceptCreateExcept(
                    ConceptCreateTry(concepts, nextConceptId, name, parent_id), concepts)
       IN /\ concepts' = r.cs
          /\ nextConceptId' = IF IsException(r.out) THEN nextConceptId ELSE nextConceptId + 1
          /\ result' = Outcome("create_concept", r.out)
    /\ UNCHANGED <<tags, nextTagId, entries, nextEntryId, audits,
                   embCache, providerCalls, now, seenTagId, requests>>

\* ConceptService._would_create_cycle: the walk from `current` upward; `fuel` is the
\* number of rows, so the walk of a forest always ends before it runs out
RECURSIVE CycleWalk(_, _, _, _)
CycleWalk(cs, concept_id, current, fuel) ==
    IF current = None THEN "no"
    ELSE IF current = concept_id THEN "yes"
    ELSE IF current \notin DOMAIN cs THEN "no"
    ELSE IF fuel = 0 THEN "diverges"
    ELSE CycleWalk(cs, concept_id, cs[current].parent_id, fuel - 1)

\* a check that looks at the new parent only and never walks further up
WouldCreateCycleParentOnly(cs, concept_id, new_parent_id) ==
    IF new_parent_id = concept_id THEN "yes" ELSE "no"

_would_create_cycle(cs, concept_id, new_parent_id) ==
    CycleWalk(cs, concept_id, new_parent_id, Cardinality(DOMAIN cs))

HasField(patch, f) == f \in DOMAIN patch

\* BaseService.update on a Concept: setattr for each field of obj_in.dict(exclude_unset=True)
ConceptSetattr(row, update_data) ==
    [f \in DOMAIN row |-> IF f \in DOMAIN update_data THEN update_data[f] ELSE row[f]]

\* ConceptService.update_with_validation, the try body
ConceptUpdateTry(cs, id, obj_in) ==
    LET db_obj == cs[id]
        new_name == HasField(obj_in, "name") /\ obj_in.name # db_obj.name
        scope == IF HasField(obj_in, "parent_id") /\ obj_in.parent_id # None
                 THEN obj_in.parent_id ELSE db_obj.parent_id
        new_parent == HasField(obj_in, "parent_id") /\ obj_in.parent_id # None
                        /\ obj_in.parent_id # db_obj.parent_id
    IN IF new_name /\ ConceptsAt(cs, obj_in.name, scope) # {}
       THEN [out |-> HTTPException(400, "Concept already exists at this level"), cs |-> cs]
       ELSE IF new_parent /\ _would_create_cycle(cs, id, obj_in.parent_id) = "yes"
       THEN [out |-> HTTPException(400, "Cannot create circular reference in concept hierarchy"),
             cs |-> cs]
       ELSE IF new_parent /\ obj_in.parent_id \notin DOMAIN cs
       THEN [out |-> HTTPException(404, "Parent concept not found"), cs |-> cs]
       ELSE LET update_data ==
                    IF new_parent
                    THEN [f \in DOMAIN obj_in \cup {"level"} |->
                            IF f = "level" THEN cs[obj_in.parent_id].level + 1 ELSE obj_in[f]]
                    ELSE obj_in
                row == ConceptSetattr(db_obj, update_data)
            IN IF ConceptNameTaken(cs, row.name, id)
               THEN [out |-> HTTPException(500, "Database error"), cs |-> cs]
               ELSE [out |-> Returned(<<id>>), cs |-> [cs EXCEPT ![id] = row]]

\* ConceptService.update_with_validation, `except Exception`: rollback, raise 500
ConceptUpdateExcept(r, cs) ==
    IF IsException(r.out)
    THEN [out |-> HTTPException(500, "Failed to update concept"), cs |-> cs]
    ELSE r

\* PUT /concepts/{concept_id}
update_concept(concept_id, obj_in) ==
    /\ LET r == IF concept_id \notin DOMAIN concepts
                THEN [out |-> HTTPException(404, "Concept not found"), cs |-> concepts]
                ELSE ConceptUpdateExcept(ConceptUpdateTry(concepts, concept_id, obj_in), concepts)
       IN /\ concept_id \in DOMAIN concepts /\ HasField(obj_in, "parent_id")
                => _would_create_cycle(concepts, concept_id, obj_in.parent_id) # "diverges"
          /\ \A c \in DOMAIN r.cs : r.cs[c].level <= MaxLevel
          /\ concepts' = r.cs
          /\ result' = Outcome("update_concept", r.out)
    /\ UNCHANGED <<nextConceptId, tags, nextTagId, entries, nextEntryId, audits,
                   embCache, providerCalls, now, seenTagId, requests>>

\* requests whose steps interleave
MaxRequests == 2
Requests == 1..MaxRequests

\* the request has given its caller `out`
Finished(req, out) == [req EXCEPT !.pc = "done", !.out = out]

\* the 400 of the cycle check
CycleErrorRaised ==
    HTTPException(400, "Cannot create circular reference in concept hierarchy")

\* update_with_validation of a patch {parent_id} served step by step, each request in a
\* session of its own: the checks read the rows committed so far, the write commits
\* the parent and the level the checks settled on
reparent_start(r, concept_id, parent_id) ==
    /\ r \notin DOMAIN requests
    /\ concept_id \in DOMAIN concepts
    /\ requests' = (r :> [op |-> "reparent", concept_id |-> concept_id,
                          parent_id |-> parent_id, level |-> concepts[concept_id].level,
                          pc |-> "check", out |-> Returned(<<>>)]) @@ requests
    /\ UNCHANGED <<dbVars, embCache, providerCalls, now, seenTagId, result>>

\* update_with_validation up to `obj_in.level = parent.level + 1`: _would_create_cycle
\* and the parent lookup; a 400 or 404 is caught by `except Exception`
reparent_check(r) ==
    /\ r \in DOMAIN requests
    /\ requests[r].op = "reparent" /\ requests[r].pc = "check"
    /\ LET id == requests[r].concept_id
           p == requests[r].parent_id
           new_parent == p # concepts[id].parent_id
           cycle == _would_create_cycle(concepts, id, p)
       IN /\ cycle # "diverges"
          /\ IF new_parent /\ (cycle = "yes" \/ p \notin DOMAIN concepts)
             THEN \E x \in {ConceptUpdateExcept(
                                [out |-> IF cycle = "yes" THEN CycleErrorRaised
                                         ELSE HTTPException(404, "Parent concept not found")],
                                concepts)} :
                     /\ requests' = [requests EXCEPT ![r] = Finished(@, x.out)]
                     /\ result' = Outcome("update_concept", x.out)
             ELSE /\ requests' = [requests EXCEPT
                                     ![r].pc = "write",
                                     ![r].level = IF new_parent THEN concepts[p].level + 1
                                                  ELSE @]
                  /\ UNCHANGED result
    /\ UNCHANGED <<dbVars, embCache, providerCalls, now, seenTagId>>

\* BaseService.update: setattr, db.add, db.commit
reparent_write(r) ==
    /\ r \in DOMAIN requests
    /\ requests[r].op = "reparent" /\ requests[r].pc = "write"
    /\ requests[r].level <= MaxLevel
    /\ concepts' = [concepts EXCEPT ![requests[r].concept_id] =
                       ConceptSetattr(@, [parent_id |-> requests[r].parent_id,
                                          level |-> requests[r].level])]
    /\ requests' = [requests EXCEPT
                       ![r] = Finished(@, Returned(<<requests[r].concept_id>>))]
    /\ result' = Outcome("update_concept", Returned(<<requests[r].concept_id>>))
    /\ UNCHANGED <<nextConceptId, tags, nextTagId, entries, nextEntryId, audits,
                   embCache, providerCalls, now, seenTagId>>

\* BaseService.delete on a Concept; parent_id and knowledge_concepts.concept_id are
\* foreign keys with ondelete SET NULL and CASCADE
ConceptDeleteRows(cs, id) ==
    [c \in DOMAIN cs \ {id} |->
        IF cs[c].parent_id = id THEN [cs[c] EXCEPT !.parent_id = None] ELSE cs[c]]

EntriesWithoutConcept(es, id) ==
    [e \in DOMAIN es |-> [es[e] EXCEPT !.concepts = @ \ {id}]]

\* DELETE /concepts/{concept_id}
delete_concept(concept_id) ==
    /\ IF concept_id \notin DOMAIN concepts
       THEN /\ result' = Outcome("delete_concept", HTTPException(404, "Record not found"))
            /\ UNCHANGED <<concepts, entries>>
       ELSE /\ concepts' = ConceptDeleteRows(concepts, concept_id)
            /\ entries' = EntriesWithoutConcept(entries, concept_id)
            /\ result' = Outcome("delete_concept", Returned(<<concept_id>>))
    /\ UNCHANGED <<nextConceptId, tags, nextTagId, nextEntryId, audits,
                   embCache, providerCalls, now, seenTagId, requests>>

\* ConceptService.get_ancestors, the while loop from `current` on; `fuel` is the number
\* of rows, so the walk of a forest always ends before it runs out
RECURSIVE AncestorsWalk(_, _, _, _)
AncestorsWalk(cs, current, ancestors, fuel) ==
    IF current = None \/ cs[current].parent_id = None
    THEN [ended |-> TRUE, ret |-> ancestors]
    ELSE IF fuel = 0 THEN [ended |-> FALSE, ret |-> ancestors]
    ELSE LET parent == IF cs[current].parent_id \in DOMAIN cs THEN cs[current].parent_id
                       ELSE None
         IN AncestorsWalk(cs, parent,
                          IF parent # None THEN Append(ancestors, parent) ELSE ancestors,
                          fuel - 1)

GetAncestors(cs, concept_id) ==
    AncestorsWalk(cs, IF concept_id \in DOMAIN cs THEN concept_id ELSE None, <<>>,
                  Cardinality(DOMAIN cs))

RECURSIVE AscSeq(_)
AscSeq(S) ==
    IF S = {} THEN <<>>
    ELSE LET m == CHOOSE x \in S : \A y \in S : y <= x
         IN Append(AscSeq(S \ {m}), m)

\* the rows with the given parent, in primary-key order
ChildrenOf(cs, id) == {c \in DOMAIN cs : cs[c].parent_id = id}

\* a loop that never puts a child on the queue
RECURSIVE DescendantsLoopChildrenOnly(_, _, _, _)
DescendantsLoopChildrenOnly(cs, queue, descendants, fuel) ==
    IF queue = <<>> THEN [ended |-> TRUE, ret |-> descendants]
    ELSE DescendantsLoopChildrenOnly(cs, Tail(queue),
                                     descendants \o AscSeq(ChildrenOf(cs, Head(queue))), fuel)

\* ConceptService.get_descendants, `while queue`: pop(0), append the children to the
\* result and to the end of the queue
RECURSIVE DescendantsLoop(_, _, _, _)
DescendantsLoop(cs, queue, descendants, fuel) ==
    IF queue = <<>> THEN [ended |-> TRUE, ret |-> descendants]
    ELSE IF fuel = 0 THEN [ended |-> FALSE, ret |-> descendants]
    ELSE LET children == AscSeq(ChildrenOf(cs, Head(queue)))
         IN DescendantsLoop(cs, Tail(queue) \o children, descendants \o children, fuel - 1)

GetDescendants(cs, concept_id) ==
    DescendantsLoop(cs, <<concept_id>>, <<>>, Cardinality(DOMAIN cs) + 1)

\* a walk that does not end gives the caller nothing
WalkOutcome(r) == IF r.ended THEN Returned(r.ret) ELSE Raised("NoReturn")

\* GET /concepts/{concept_id}/ancestors
get_ancestors(concept_id) ==
    /\ result' = OutcomeOf("get_ancestors", [concept_id |-> concept_id],
                           WalkOutcome(GetAncestors(concepts, concept_id)))
    /\ UNCHANGED <<dbVars, embCache, providerCalls, now, seenTagId, requests>>

\* GET /concepts/{concept_id}/descendants
get_descendants(concept_id) ==
    /\ result' = OutcomeOf("get_descendants", [concept_id |-> concept_id],
                           WalkOutcome(GetDescendants(concepts, concept_id)))
    /\ UNCHANGED <<dbVars, embCache, providerCalls, now, seenTagId, requests>>

(***************************************************************************)
(* Similarity search                                                       *)
(***************************************************************************)
MaxCandidates == 3
MaxLimit == 2

\* Knowledge.embedding, a nullable ARRAY(Float): NULL, or a list (which may be empty)
NullEmbedding == [isnull |-> TRUE, vec |-> <<>>]
Stored(v) == [isnull |-> FALSE, vec |-> v]

EntryRow(topic, content, embedding, ts, cs, last_accessed_at) ==
    [topic |-> topic, content |-> content, embedding |-> embedding,
     tags |-> ts, concepts |-> cs, last_accessed_at |-> last_accessed_at]

Min(a, b) == IF a <= b THEN a ELSE b
Max(a, b) == IF a >= b THEN a ELSE b
Front(s) == SubSeq(s, 1, Len(s) - 1)

RECURSIVE Dot(_, _)
Dot(a, b) == IF a = <<>> THEN 0 ELSE Dot(Front(a), Front(b)) + a[Len(a)] * b[Len(b)]

\* np.linalg.norm(v) squared
NormSq(v) == Dot(v, v)

\* KnowledgeService._calculate_similarity: np.dot raises ValueError for vectors of
\* different lengths; a zero norm makes the quotient 0/0.0 = nan (a warning, no
\* exception).  The float dot/sqrt(den) is kept exactly, as sign(dot)*dot^2 over den.
_calculate_similarity(vec1, vec2) ==
    IF Len(vec1) # Len(vec2) THEN [kind |-> "ValueError", num |-> 0, den |-> 1]
    ELSE IF NormSq(vec1) * NormSq(vec2) = 0 THEN [kind |-> "nan", num |-> 0, den |-> 1]
    ELSE LET dot == Dot(vec1, vec2)
         IN [kind |-> "float",
             num |-> IF dot >= 0 THEN dot * dot ELSE -(dot * dot),
             den |-> NormSq(vec1) * NormSq(vec2)]

\* EmbeddingsService.calculate_similarity: an empty vector scores 0.0
calculate_similarity(vec1, vec2) ==
    IF vec1 = <<>> \/ vec2 = <<>> THEN [kind |-> "float", num |-> 0, den |-> 1]
    ELSE _calculate_similarity(vec1, vec2)

\* similarity >= min_similarity, min_similarity given in tenths; nan >= x is False
AtLeast(sim, tenths) ==
    /\ sim.kind = "float"
    /\ sim.num * 100 >= (IF tenths >= 0 THEN tenths * tenths ELSE -(tenths * tenths)) * sim.den

\* x[1] < y[1] on the floats
SimLess(a, b) == a.num * b.den < b.num * a.den

\* a query that keeps a row when one of the two joins matches
SearchQueryEitherFilter(es, ts, cs, filter_tags, filter_concepts) ==
    AscSeq({e \in DOMAIN es :
        /\ ~es[e].embedding.isnull
        /\ \/ filter_tags = {} /\ filter_concepts = {}
           \/ filter_tags # {} /\ \E t \in es[e].tags : ts[t].name \in filter_tags
           \/ filter_concepts # {}
                 /\ \E c \in es[e].concepts : cs[c].name \in filter_concepts})

\* the query of search_similar: rows with a non-NULL embedding, joined to the tags and
\* concepts named by the filters when a filter is given; rows come in primary-key order
SearchQuery(es, ts, cs, filter_tags, filter_concepts) ==
    AscSeq({e \in DOMAIN es :
        /\ ~es[e].embedding.isnull
        /\ filter_tags # {} => \E t \in es[e].tags : ts[t].name \in filter_tags
        /\ filter_concepts # {} => \E c \in es[e].concepts : cs[c].name \in filter_concepts})

\* the loop over the rows from row i on: appends (entry, similarity) to `similarities`
\* when similarity >= min_similarity; an exception in a row ends the loop
RECURSIVE SimilarityLoop(_, _, _, _, _, _)
SimilarityLoop(es, rows, i, query_vector, min_similarity, similarities) ==
    IF i > Len(rows) THEN [raised |-> FALSE, similarities |-> similarities]
    ELSE LET sim == _calculate_similarity(query_vector, es[rows[i]].embedding.vec)
         IN IF sim.kind = "ValueError" THEN [raised |-> TRUE, similarities |-> <<>>]
            ELSE SimilarityLoop(es, rows, i + 1, query_vector, min_similarity,
                                IF AtLeast(sim, min_similarity)
                                THEN Append(similarities, [entry |-> rows[i], sim |-> sim])
                                ELSE similarities)

\* an insertion that puts x before the elements equal to it
InsertDescBeforeEqual(sorted, x) ==
    LET k == Cardinality({i \in 1..Len(sorted) : SimLess(x.sim, sorted[i].sim)})
    IN SubSeq(sorted, 1, k) \o <<x>> \o SubSeq(sorted, k + 1, Len(sorted))

\* one insertion of a stable descending sort: x goes after every element not below it
InsertDesc(sorted, x) ==
    LET k == Cardinality({i \in 1..Len(sorted) : ~SimLess(sorted[i].sim, x.sim)})
    IN SubSeq(sorted, 1, k) \o <<x>> \o SubSeq(sorted, k + 1, Len(sorted))

\* similarities.sort(key=lambda x: x[1], reverse=True): list.sort is stable, also reversed
RECURSIVE SortDesc(_)
SortDesc(s) == IF s = <<>> THEN <<>> ELSE InsertDesc(SortDesc(Front(s)), s[Len(s)])

\* s[:limit], Python slicing: a negative limit counts from the end
SliceTo(s, limit) ==
    SubSeq(s, 1, IF limit >= 0 THEN Min(limit, Len(s)) ELSE Max(Len(s) + limit, 0))

\* KnowledgeService.search_similar, the try body
SearchTry(es, ts, cs, t, query_embedding, limit, min_similarity, filter_tags, filter_concepts) ==
    LET rows == SearchQuery(es, ts, cs, filter_tags, filter_concepts)
        loop == SimilarityLoop(es, rows, 1, query_embedding, min_similarity, <<>>)
        sorted == SortDesc(loop.similarities)
        top == SliceTo(sorted, limit)
        results == [i \in 1..Len(top) |-> top[i].entry]
    IN IF loop.raised THEN [out |-> Raised("ValueError"), es |-> es]
       ELSE [out |-> Returned(results),
             es |-> [e \in DOMAIN es |->
                        IF \E i \in 1..Len(results) : results[i] = e
                        THEN [es[e] EXCEPT !.last_accessed_at = t] ELSE es[e]]]

\* KnowledgeService.search_similar, `except Exception`: raise 500 (no rollback)
SearchExcept(r, es) ==
    IF IsException(r.out)
    THEN [out |-> HTTPException(500, "Failed to perform similarity search"), es |-> es]
    ELSE r

search_similar(query_embedding, limit, min_similarity, filter_tags, filter_concepts) ==
    /\ \E r \in {SearchExcept(SearchTry(entries, tags, concepts, now, query_embedding,
                                          limit, min_similarity, filter_tags,
                                          filter_concepts), entries)} :
          /\ entries' = r.es
          /\ result' = OutcomeOf("search_similar",
                                 [query_embedding |-> query_embedding, limit |-> limit,
                                  min_similarity |-> min_similarity,
                                  filter_tags |-> filter_tags,
                                  filter_concepts |-> filter_concepts], r.out)
    /\ UNCHANGED <<concepts, nextConceptId, tags, nextTagId, nextEntryId, audits,
                   embCache, providerCalls, now, seenTagId, requests>>

(***************************************************************************)
(* The ranker over stored entries drawn from a bounded set                 *)
(***************************************************************************)
StoredEmbeddings ==
    {NullEmbedding, Stored(<<>>), Stored(<<0, 0>>), Stored(<<1, 0>>), Stored(<<1, 1>>)}
QueryVectors == {<<0, 0>>, <<1, 0>>, <<1, 1>>}
\* min_similarity in tenths: the default 0.7, and 0.9
MinSimilarities == {7, 9}
Limits == (-1)..MaxLimit

InitRank ==
    /\ \E n \in 0..MaxCandidates :
        /\ \E embs \in [1..n -> StoredEmbeddings] :
            entries = [i \in 1..n |->
                          EntryRow("T" \o ToString(i), "text", embs[i], {}, {}, None)]
        /\ nextEntryId = n + 1
    /\ concepts = EmptyFn
    /\ nextConceptId = 1
    /\ tags = EmptyFn
    /\ nextTagId = 1
    /\ audits = <<>>
    /\ embCache = EmptyFn
    /\ providerCalls = 0
    /\ now = 1
    /\ seenTagId = EmptyFn
    /\ requests = EmptyFn
    /\ result = Outcome("init", Returned(<<>>))

NextRank ==
    \E q \in QueryVectors, l \in Limits, m \in MinSimilarities : search_similar(q, l, m, {}, {})

SpecRank == InitRank /\ [][NextRank]_vars

(***************************************************************************)
(* Embedding generation                                                    *)
(***************************************************************************)
MaxProviderCalls == 6
\* stop_after_attempt(3)
MaxAttempts == 3

Texts == {"alpha", "beta"}
ProviderVectors == {<<1, 0>>, <<1, 1>>}

\* what one openai.Embedding.acreate call does: a vector, RateLimitError, or another error
Responded(v) == [kind |-> "ok", vec |-> v]
ProviderResponses ==
    {Responded(v) : v \in ProviderVectors}
        \cup {[kind |-> "RateLimitError", vec |-> <<>>], [kind |-> "Error", vec |-> <<>>]}
RateLimited == [kind |-> "RateLimitError", vec |-> <<>>]
\* the responses the provider gives to the successive calls of one operation: rate
\* limits up to the first other response, MaxAttempts responses at most
ProviderScripts ==
    UNION {{[i \in 1..k |-> IF i < k THEN RateLimited ELSE last] :
                last \in IF k = MaxAttempts THEN ProviderResponses
                         ELSE ProviderResponses \ {RateLimited}} : k \in 1..MaxAttempts}

\* hash(text): the cache key of a text
hash(text) == <<"hash", text>>

\* BaseService._cache_get: no service is constructed with a redis_client, so
\* `if not self.redis_client: return None`
_cache_get(key) == None

\* an attempt whose handler for RateLimitError logs and returns [] like the other one
EmbeddingAttemptSwallowsRateLimit(response) ==
    IF response.kind = "ok" THEN [raised |-> FALSE, embedding |-> response.vec]
    ELSE [raised |-> FALSE, embedding |-> <<>>]

\* one attempt of the body shared by EmbeddingsService.generate_embedding and
\* KnowledgeService._generate_embedding, past the cache check
EmbeddingAttempt(response) ==
    IF response.kind = "ok" THEN [raised |-> FALSE, embedding |-> response.vec]
    ELSE IF response.kind = "RateLimitError" THEN [raised |-> TRUE, embedding |-> <<>>]
    ELSE [raised |-> FALSE, embedding |-> <<>>]

\* tenacity @retry around an attempt that always reaches the provider: attempt k uses
\* script[k]; a raised RateLimitError is retried until MaxAttempts, then RetryError
RECURSIVE Retry(_, _)
Retry(script, k) ==
    LET a == EmbeddingAttempt(script[k])
    IN IF ~a.raised
       THEN [out |-> Returned(a.embedding), calls |-> k, ok |-> script[k].kind = "ok"]
       ELSE IF k = MaxAttempts
       THEN [out |-> Raised("RetryError"), calls |-> k, ok |-> FALSE]
       ELSE Retry(script, k + 1)

\* EmbeddingsService.generate_embedding(text) under @retry
generate_embedding(text, script) ==
    /\ providerCalls + MaxAttempts <= MaxProviderCalls
    /\ IF hash(text) \in DOMAIN embCache
       THEN /\ result' = OutcomeOf("generate_embedding", [text |-> text, script |-> script],
                                      Returned(embCache[hash(text)]))
            /\ UNCHANGED <<embCache, providerCalls>>
       ELSE LET r == Retry(script, 1)
            IN /\ providerCalls' = providerCalls + r.calls
               /\ embCache' = IF r.ok
                              THEN [k \in DOMAIN embCache \cup {hash(text)} |->
                                       IF k = hash(text) THEN r.out.ret ELSE embCache[k]]
                              ELSE embCache
               /\ result' = OutcomeOf("generate_embedding", [text |-> text, script |-> script],
                                      r.out)
    /\ UNCHANGED <<dbVars, now, seenTagId, requests>>

\* EmbeddingsService.clear_cache
clear_cache ==
    /\ embCache' = EmptyFn
    /\ result' = Outcome("clear_cache", Returned(<<>>))
    /\ UNCHANGED <<dbVars, providerCalls, now, seenTagId, requests>>

\* KnowledgeService._generate_embedding(text) under @retry, as a function of the
\* provider's responses: the cache lookup returns None, _cache_set stores nothing
GenerateEmbedding(text, script) ==
    IF _cache_get(hash(text)) # None
    THEN [out |-> Returned(<<>>), calls |-> 0, ok |-> TRUE]
    ELSE Retry(script, 1)

_generate_embedding(text, script) ==
    /\ providerCalls + MaxAttempts <= MaxProviderCalls
    /\ LET r == GenerateEmbedding(text, script)
       IN /\ providerCalls' = providerCalls + r.calls
          /\ result' = OutcomeOf("_generate_embedding", [text |-> text, script |-> script],
                                 r.out)
    /\ UNCHANGED <<dbVars, embCache, now, seenTagId, requests>>

(***************************************************************************)
(* Embeddings in chunks                                                    *)
(***************************************************************************)
MaxTexts == 2
MaxBatchSize == 2
MaxBatchCalls == 3

\* the embedding the provider computes for a text
VectorOf == [t \in Texts |-> IF t = "alpha" THEN <<0, 1>> ELSE <<1, 2>>]

\* batch = texts[i : i + batch_size], for the 1-based start i
Chunk(texts, i, batch_size) == SubSeq(texts, i, Min(i + batch_size - 1, Len(texts)))

Empties(batch) == [j \in 1..Len(batch) |-> <<>>]

\* a chunk whose vectors are put together without the sort: the cached ones first,
\* then the new ones
ChunkEmbeddingsUnsorted(batch, cache) ==
    LET cached == SelectSeq(batch, LAMBDA t : hash(t) \in DOMAIN cache)
        fresh == SelectSeq(batch, LAMBDA t : hash(t) \notin DOMAIN cache)
    IN [j \in 1..Len(cached) |-> cache[hash(cached[j])]]
           \o [j \in 1..Len(fresh) |-> VectorOf[fresh[j]]]

\* EmbeddingsService.generate_embeddings_batch, one chunk whose provider call (if any)
\* succeeded: cached_embeddings holds (j, vector) for the cached and the new texts and
\* is sorted by j
ChunkEmbeddings(batch, cache) ==
    [j \in 1..Len(batch) |->
        IF hash(batch[j]) \in DOMAIN cache THEN cache[hash(batch[j])] ELSE VectorOf[batch[j]]]

\* self.cache[hash(batch[idx])] = embedding, for the texts sent to the provider
CacheAfterChunk(batch, cache) ==
    LET sent == {batch[j] : j \in 1..Len(batch)}
    IN [k \in DOMAIN cache \cup {hash(t) : t \in sent} |->
           IF k \in DOMAIN cache THEN cache[k]
           ELSE VectorOf[CHOOSE t \in sent : hash(t) = k]]

\* a handler that on a failing chunk empties everything gathered so far as well
FailedChunkLosesAll(all_embeddings, batch) == Empties(all_embeddings) \o Empties(batch)

\* `except Exception`: all_embeddings.extend([[] for _ in batch])
FailedChunk(all_embeddings, batch) == all_embeddings \o Empties(batch)

\* EmbeddingsService.generate_embeddings_batch, one run of the body from the chunk
\* starting at i: `calls` counts the provider calls of the operation, call k is
\* answered by script[k]; `exhausted` when the script has no answer left
RECURSIVE EmbedChunks(_, _, _, _, _, _, _)
EmbedChunks(texts, batch_size, i, script, cache, calls, all_embeddings) ==
    IF i > Len(texts)
    THEN [raised |-> FALSE, exhausted |-> FALSE, cache |-> cache, calls |-> calls,
          embeddings |-> all_embeddings]
    ELSE LET batch == Chunk(texts, i, batch_size)
             texts_to_embed == SelectSeq(batch, LAMBDA t : hash(t) \notin DOMAIN cache)
         IN IF texts_to_embed = <<>>
            THEN EmbedChunks(texts, batch_size, i + batch_size, script, cache, calls,
                             all_embeddings \o ChunkEmbeddings(batch, cache))
            ELSE IF calls + 1 > Len(script)
            THEN [raised |-> FALSE, exhausted |-> TRUE, cache |-> cache, calls |-> calls,
                  embeddings |-> all_embeddings]
            ELSE IF script[calls + 1] = "ok"
            THEN EmbedChunks(texts, batch_size, i + batch_size, script,
                             CacheAfterChunk(batch, cache), calls + 1,
                             all_embeddings \o ChunkEmbeddings(batch, cache))
            ELSE IF script[calls + 1] = "RateLimitError"
            THEN [raised |-> TRUE, exhausted |-> FALSE, cache |-> cache, calls |-> calls + 1,
                  embeddings |-> all_embeddings]
            ELSE EmbedChunks(texts, batch_size, i + batch_size, script, cache, calls + 1,
                             FailedChunk(all_embeddings, batch))

\* tenacity @retry around it: a raised RateLimitError runs the body again from the
\* first chunk, with the cache as it is by then; RetryError after MaxAttempts
RECURSIVE EmbedBatchRetry(_, _, _, _, _, _)
EmbedBatchRetry(texts, batch_size, script, cache, calls, attempt) ==
    LET p == EmbedChunks(texts, batch_size, 1, script, cache, calls, <<>>)
    IN IF p.exhausted \/ ~p.raised
       THEN [out |-> Returned(p.embeddings), cache |-> p.cache, calls |-> p.calls,
             exhausted |-> p.exhausted]
       ELSE IF attempt = MaxAttempts
       THEN [out |-> Raised("RetryError"), cache |-> p.cache, calls |-> p.calls,
             exhausted |-> FALSE]
       ELSE EmbedBatchRetry(texts, batch_size, script, p.cache, p.calls, attempt + 1)

\* EmbeddingsService.generate_embeddings_batch(texts, batch_size) under @retry
generate_embeddings_batch(texts, batch_size, script) ==
    /\ providerCalls + Len(script) <= MaxProviderCalls
    /\ \E r \in {IF texts = <<>>
                  THEN [out |-> Returned(<<>>), cache |-> embCache, calls |-> 0,
                        exhausted |-> FALSE]
                  ELSE EmbedBatchRetry(texts, batch_size, script, embCache, 0, 1)} :
          /\ ~r.exhausted
          /\ embCache' = r.cache
          /\ providerCalls' = providerCalls + r.calls
          /\ result' = OutcomeOf("generate_embeddings_batch",
                                 [texts |-> texts, batch_size |-> batch_size,
                                  answers |-> SubSeq(script, 1, r.calls)], r.out)
    /\ UNCHANGED <<dbVars, now, seenTagId, requests>>

\* KnowledgeBatchService._generate_embeddings_batch, one run of the body from the chunk
\* starting at i: every chunk goes to the provider
RECURSIVE KnowledgeChunks(_, _, _, _, _, _)
KnowledgeChunks(texts, batch_size, i, script, calls, all_embeddings) ==
    IF i > Len(texts)
    THEN [raised |-> FALSE, exhausted |-> FALSE, calls |-> calls, embeddings |-> all_embeddings]
    ELSE LET batch == Chunk(texts, i, batch_size)
         IN IF calls + 1 > Len(script)
            THEN [raised |-> FALSE, exhausted |-> TRUE, calls |-> calls,
                  embeddings |-> all_embeddings]
            ELSE IF script[calls + 1] = "ok"
            THEN KnowledgeChunks(texts, batch_size, i + batch_size, script, calls + 1,
                                 all_embeddings \o [j \in 1..Len(batch) |-> VectorOf[batch[j]]])
            ELSE IF script[calls + 1] = "RateLimitError"
            THEN [raised |-> TRUE, exhausted |-> FALSE, calls |-> calls + 1,
                  embeddings |-> all_embeddings]
            ELSE KnowledgeChunks(texts, batch_size, i + batch_size, script, calls + 1,
                                 FailedChunk(all_embeddings, batch))

RECURSIVE KnowledgeBatchRetry(_, _, _, _, _)
KnowledgeBatchRetry(texts, batch_size, script, calls, attempt) ==
    LET p == KnowledgeChunks(texts, batch_size, 1, script, calls, <<>>)
    IN IF p.exhausted \/ ~p.raised
       THEN [out |-> Returned(p.embeddings), calls |-> p.calls, exhausted |-> p.exhausted]
       ELSE IF attempt = MaxAttempts
       THEN [out |-> Raised("RetryError"), calls |-> p.calls, exhausted |-> FALSE]
       ELSE KnowledgeBatchRetry(texts, batch_size, script, p.calls, attempt + 1)

\* KnowledgeBatchService._generate_embeddings_batch(texts, batch_size) under @retry
knowledge_embeddings_batch(texts, batch_size, script) ==
    /\ providerCalls + Len(script) <= MaxProviderCalls
    /\ \E r \in {IF texts = <<>>
                  THEN [out |-> Returned(<<>>), calls |-> 0, exhausted |-> FALSE]
                  ELSE KnowledgeBatchRetry(texts, batch_size, script, 0, 1)} :
          /\ ~r.exhausted
          /\ providerCalls' = providerCalls + r.calls
          /\ result' = OutcomeOf("_generate_embeddings_batch",
                                 [texts |-> texts, batch_size |-> batch_size,
                                  answers |-> SubSeq(script, 1, r.calls)], r.out)
    /\ UNCHANGED <<dbVars, embCache, now, seenTagId, requests>>

(***************************************************************************)
(* Tags                                                                    *)
(***************************************************************************)
MaxTagId == 3
MaxEntryId == 2

TagNames == {"ta", "tb"}
Topics == {"T1", "T2"}
\* current_user["id"]
CurrentUser == 1

Range(s) == {s[i] : i \in DOMAIN s}
HasDuplicates(s) == Cardinality(Range(s)) < Len(s)

TagRow(name) == [name |-> name]

\* a lookup that finds nothing
GetByNameNothing(ts, name) == None

\* TagService.get_by_name: the row with that name, or None
get_by_name(ts, name) ==
    IF \E t \in DOMAIN ts : ts[t].name = name
    THEN CHOOSE t \in DOMAIN ts : ts[t].name = name
    ELSE None

\* TagService.create_with_validation, the try body (it commits the new row)
TagCreateTry(ts, nid, name) ==
    IF \E t \in DOMAIN ts : ts[t].name = name
    THEN [out |-> HTTPException(400, "Tag already exists"), ts |-> ts, nid |-> nid]
    ELSE [out |-> Returned(<<nid>>), ts |-> (nid :> TagRow(name)) @@ ts, nid |-> nid + 1]

\* TagService.create_with_validation, `except Exception`: rollback, raise 500
TagCreateExcept(r, ts, nid) ==
    IF IsException(r.out)
    THEN [out |-> HTTPException(500, "Failed to create tag"), ts |-> ts, nid |-> nid]
    ELSE r

\* TagService.get_or_create as a function of the tags table
GetOrCreate(ts, nid, name) ==
    LET tag == get_by_name(ts, name)
    IN IF tag # None THEN [out |-> Returned(<<tag>>), ts |-> ts, nid |-> nid]
       ELSE TagCreateExcept(TagCreateTry(ts, nid, name), ts, nid)

get_or_create(name) ==
    /\ \E r \in {GetOrCreate(tags, nextTagId, name)} :
          /\ r.nid <= MaxTagId + 1
          /\ tags' = r.ts
          /\ nextTagId' = r.nid
          /\ result' = OutcomeOf("get_or_create", [name |-> name], r.out)
    /\ UNCHANGED <<concepts, nextConceptId, entries, nextEntryId, audits,
                   embCache, providerCalls, now, seenTagId, requests>>

\* get_or_create served step by step, each request in a session of its own: a query
\* sees the rows committed so far, and the commit of a row whose name another request
\* has committed meanwhile violates the unique index of tags.name
\* a request arrives
get_or_create_start(r, name) ==
    /\ r \notin DOMAIN requests
    /\ requests' = (r :> [op |-> "get_or_create", name |-> name, pc |-> "get_by_name",
                          out |-> Returned(<<>>)]) @@ requests
    /\ UNCHANGED <<dbVars, embCache, providerCalls, now, seenTagId, result>>

\* get_or_create: `tag = await self.get_by_name(db, name=name)`, `if not tag`
get_or_create_lookup(r) ==
    /\ r \in DOMAIN requests
    /\ requests[r].op = "get_or_create" /\ requests[r].pc = "get_by_name"
    /\ LET tag == get_by_name(tags, requests[r].name)
       IN IF tag # None
          THEN /\ requests' = [requests EXCEPT ![r] = Finished(@, Returned(<<tag>>))]
               /\ result' = OutcomeOf("get_or_create", [name |-> requests[r].name],
                                      Returned(<<tag>>))
          ELSE /\ requests' = [requests EXCEPT ![r].pc = "existing"]
               /\ UNCHANGED result
    /\ UNCHANGED <<dbVars, embCache, providerCalls, now, seenTagId>>

\* create_with_validation: the `existing` query; the 400 it raises is caught by the
\* `except Exception` of the same function
get_or_create_existing(r) ==
    /\ r \in DOMAIN requests
    /\ requests[r].op = "get_or_create" /\ requests[r].pc = "existing"
    /\ IF get_by_name(tags, requests[r].name) # None
       THEN \E x \in {TagCreateExcept([out |-> HTTPException(400, "Tag already exists")],
                                      tags, nextTagId)} :
               /\ requests' = [requests EXCEPT ![r] = Finished(@, x.out)]
               /\ result' = OutcomeOf("get_or_create", [name |-> requests[r].name], x.out)
       ELSE /\ requests' = [requests EXCEPT ![r].pc = "commit"]
            /\ UNCHANGED result
    /\ UNCHANGED <<dbVars, embCache, providerCalls, now, seenTagId>>

\* create_with_validation: db.add, db.commit; IntegrityError on a name committed
\* meanwhile, caught by `except Exception`
get_or_create_commit(r) ==
    /\ r \in DOMAIN requests
    /\ requests[r].op = "get_or_create" /\ requests[r].pc = "commit"
    /\ nextTagId <= MaxTagId
    /\ \E x \in {IF get_by_name(tags, requests[r].name) # None
                  THEN TagCreateExcept([out |-> Raised("IntegrityError")], tags, nextTagId)
                  ELSE TagCreateTry(tags, nextTagId, requests[r].name)} :
          /\ tags' = x.ts
          /\ nextTagId' = x.nid
          /\ requests' = [requests EXCEPT ![r] = Finished(@, x.out)]
          /\ result' = OutcomeOf("get_or_create", [name |-> requests[r].name], x.out)
    /\ UNCHANGED <<concepts, nextConceptId, entries, nextEntryId, audits,
                   embCache, providerCalls, now, seenTagId>>

\* POST /tags: TagService.create_with_validation
create_tag(name) ==
    /\ \E r \in {TagCreateExcept(TagCreateTry(tags, nextTagId, name), tags, nextTagId)} :
          /\ r.nid <= MaxTagId + 1
          /\ tags' = r.ts
          /\ nextTagId' = r.nid
          /\ result' = Outcome("create_tag", r.out)
    /\ UNCHANGED <<concepts, nextConceptId, entries, nextEntryId, audits,
                   embCache, providerCalls, now, seenTagId, requests>>

\* TagService.update_with_validation, the try body, for a patch of the name
TagUpdateTry(ts, id, obj_in) ==
    IF /\ HasField(obj_in, "name")
       /\ obj_in.name # ts[id].name
       /\ \E t \in DOMAIN ts : ts[t].name = obj_in.name
    THEN [out |-> HTTPException(400, "Tag already exists"), ts |-> ts]
    ELSE [out |-> Returned(<<id>>),
          ts |-> [ts EXCEPT ![id] = [f \in DOMAIN ts[id] |->
                                        IF f \in DOMAIN obj_in THEN obj_in[f] ELSE ts[id][f]]]]

\* TagService.update_with_validation, `except Exception`: rollback, raise 500
TagUpdateExcept(r, ts) ==
    IF IsException(r.out)
    THEN [out |-> HTTPException(500, "Failed to update tag"), ts |-> ts]
    ELSE r

\* PUT /tags/{tag_id}
update_tag(tag_id, obj_in) ==
    /\ IF tag_id \notin DOMAIN tags
       THEN /\ result' = Outcome("update_tag", HTTPException(404, "Tag not found"))
            /\ UNCHANGED tags
       ELSE \E r \in {TagUpdateExcept(TagUpdateTry(tags, tag_id, obj_in), tags)} :
               /\ tags' = r.ts
               /\ result' = Outcome("update_tag", r.out)
    /\ UNCHANGED <<concepts, nextConceptId, nextTagId, entries, nextEntryId, audits,
                   embCache, providerCalls, now, seenTagId, requests>>

\* rows of knowledge_tags go with the tag (ondelete CASCADE)
EntriesWithoutTag(es, id) == [e \in DOMAIN es |-> [es[e] EXCEPT !.tags = @ \ {id}]]

\* DELETE /tags/{tag_id}: BaseService.delete
delete_tag(tag_id) ==
    /\ IF tag_id \notin DOMAIN tags
       THEN /\ result' = Outcome("delete_tag", HTTPException(404, "Record not found"))
            /\ UNCHANGED <<tags, entries>>
       ELSE /\ tags' = [t \in DOMAIN tags \ {tag_id} |-> tags[t]]
            /\ entries' = EntriesWithoutTag(entries, tag_id)
            /\ result' = Outcome("delete_tag", Returned(<<tag_id>>))
    /\ UNCHANGED <<concepts, nextConceptId, nextTagId, nextEntryId, audits,
                   embCache, providerCalls, now, seenTagId, requests>>

(***************************************************************************)
(* Knowledge entries                                                       *)
(***************************************************************************)
\* the tables an entry operation writes
Database ==
    [tags |-> tags, nextTagId |-> nextTagId, entries |-> entries,
     nextEntryId |-> nextEntryId, audits |-> audits]

KnowledgeCreate(topic, content, ts, cs) ==
    [topic |-> topic, content |-> content, tags |-> ts, concepts |-> cs]

AuditRow(knowledge_id, user_id, action) ==
    [knowledge_id |-> knowledge_id, user_id |-> user_id, action |-> action]

\* create_with_relations, `for tag_name in obj_in.tags`, from index i on: each
\* get_or_create commits a tag it creates
RECURSIVE TagsLoop(_, _, _, _, _)
TagsLoop(ts, nid, names, i, attached) ==
    IF i > Len(names)
    THEN [raised |-> FALSE, ts |-> ts, nid |-> nid, attached |-> attached]
    ELSE LET g == GetOrCreate(ts, nid, names[i])
         IN IF IsException(g.out)
            THEN [raised |-> TRUE, ts |-> g.ts, nid |-> g.nid, attached |-> attached]
            ELSE TagsLoop(g.ts, g.nid, names, i + 1, Append(attached, g.out.ret[1]))

\* ConceptService.get_by_path: a path is the sequence path.split("/")
RECURSIVE PathWalk(_, _, _, _)
PathWalk(cs, parts, i, current_id) ==
    IF i > Len(parts) THEN current_id
    ELSE LET found == ConceptsAt(cs, parts[i], current_id)
         IN IF found = {} THEN None
            ELSE PathWalk(cs, parts, i + 1, CHOOSE c \in found : TRUE)

get_by_path(cs, path) == PathWalk(cs, path, 1, None)

\* create_with_relations, `for concept_path in obj_in.concepts`: 404 on an unknown path
RECURSIVE ConceptsLoop(_, _, _, _)
ConceptsLoop(cs, paths, i, attached) ==
    IF i > Len(paths) THEN [raised |-> FALSE, attached |-> attached]
    ELSE LET concept == get_by_path(cs, paths[i])
         IN IF concept = None THEN [raised |-> TRUE, attached |-> attached]
            ELSE ConceptsLoop(cs, paths, i + 1, Append(attached, concept))

\* Knowledge.topic is unique
TopicTaken(es, topic, except) == \E e \in DOMAIN es \ {except} : es[e].topic = topic

\* KnowledgeService.create_with_relations, the try body after the embedding is known.
\* db is what is committed when the body ends: a raise leaves the tags that
\* get_or_create committed
CreateTry(db, cs, obj_in, user_id, embedding) ==
    LET tl == TagsLoop(db.tags, db.nextTagId, obj_in.tags, 1, <<>>)
        withTags == [db EXCEPT !.tags = tl.ts, !.nextTagId = tl.nid]
        cl == ConceptsLoop(cs, obj_in.concepts, 1, <<>>)
        id == db.nextEntryId
    IN IF tl.raised THEN [out |-> HTTPException(500, "Failed to create tag"), db |-> withTags]
       ELSE IF cl.raised
       THEN [out |-> HTTPException(404, "Concept path not found"), db |-> withTags]
       ELSE IF \/ TopicTaken(db.entries, obj_in.topic, None)
               \/ HasDuplicates(tl.attached)
               \/ HasDuplicates(cl.attached)
       THEN [out |-> Raised("IntegrityError"), db |-> withTags]
       ELSE [out |-> Returned(<<id>>),
             db |-> [withTags EXCEPT
                        !.entries = (id :> EntryRow(obj_in.topic, obj_in.content, embedding,
                                                    Range(tl.attached), Range(cl.attached),
                                                    None)) @@ @,
                        !.nextEntryId = id + 1,
                        !.audits = Append(@, AuditRow(id, user_id, "create"))]]

\* KnowledgeService.create_with_relations, `except Exception`: rollback, raise 500
CreateExcept(r) ==
    IF IsException(r.out)
    THEN [out |-> HTTPException(500, "Failed to create knowledge entry"), db |-> r.db]
    ELSE r

\* create_with_relations(embedding=None): the embedding comes from _generate_embedding,
\* which hands back [] when the provider fails, and [] is stored
CreateWithRelations(db, cs, obj_in, user_id, script) ==
    LET g == GenerateEmbedding(obj_in.content, script)
    IN IF IsException(g.out)
       THEN [out |-> HTTPException(500, "Failed to create knowledge entry"), db |-> db,
             calls |-> g.calls]
       ELSE LET r == CreateExcept(CreateTry(db, cs, obj_in, user_id, Stored(g.out.ret)))
            IN [out |-> r.out, db |-> r.db, calls |-> g.calls]

\* the tag ids an entry creation attached, by name
Attached(seen, es, ts, id) ==
    [n \in DOMAIN seen \cup {ts[t].name : t \in es[id].tags} |->
        IF \E t \in es[id].tags : ts[t].name = n
        THEN CHOOSE t \in es[id].tags : ts[t].name = n
        ELSE seen[n]]

\* POST /: KnowledgeService.create_with_relations
create_with_relations(obj_in, script) ==
    /\ providerCalls + MaxAttempts <= MaxProviderCalls
    /\ nextEntryId <= MaxEntryId
    /\ \E r \in {CreateWithRelations(Database, concepts, obj_in, CurrentUser, script)} :
          /\ r.db.nextTagId <= MaxTagId + 1
          /\ tags' = r.db.tags
          /\ nextTagId' = r.db.nextTagId
          /\ entries' = r.db.entries
          /\ nextEntryId' = r.db.nextEntryId
          /\ audits' = r.db.audits
          /\ providerCalls' = providerCalls + r.calls
          /\ seenTagId' = IF IsException(r.out) THEN seenTagId
                          ELSE Attached(seenTagId, r.db.entries, r.db.tags, r.out.ret[1])
          /\ result' = Outcome("create_with_relations", r.out)
    /\ UNCHANGED <<concepts, nextConceptId, embCache, now, requests>>

\* a deletion that empties the audit table
AuditsDropped(as, id) == <<>>

\* rows of knowledge_audit go with the entry (cascade all, delete-orphan)
AuditsWithoutEntry(as, id) == SelectSeq(as, LAMBDA a : a.knowledge_id # id)

\* DELETE /{knowledge_id}: BaseService.delete
delete_knowledge(knowledge_id) ==
    /\ IF knowledge_id \notin DOMAIN entries
       THEN /\ result' = Outcome("delete_knowledge", HTTPException(404, "Record not found"))
            /\ UNCHANGED <<entries, audits>>
       ELSE /\ entries' = [e \in DOMAIN entries \ {knowledge_id} |-> entries[e]]
            /\ audits' = AuditsWithoutEntry(audits, knowledge_id)
            /\ result' = Outcome("delete_knowledge", Returned(<<knowledge_id>>))
    /\ UNCHANGED <<concepts, nextConceptId, tags, nextTagId, nextEntryId,
                   embCache, providerCalls, now, seenTagId, requests>>

(***************************************************************************)
(* Entry update                                                            *)
(***************************************************************************)
\* KnowledgeUpdate declares topic, content, question, answer, metadata, tags and
\* concepts: assigning obj_in.embedding raises ValueError (no such field)
KnowledgeUpdateFields == {"topic", "content", "question", "answer", "metadata", "tags", "concepts"}

\* original_state["metadata"] is db_obj.metadata, the MetaData of the declarative
\* base (the column is meta_info): the audit row's JSONB details cannot be serialised
OriginalStateSerialisable == FALSE

\* update_with_audit, `for tag_name in obj_in.tags` after db_obj.tags = [], from index
\* i on.  The commit inside get_or_create, when it creates a tag, also writes the tags
\* db_obj holds at that moment: `stored` is the entry's committed tag set
RECURSIVE UpdateTagsLoop(_, _, _, _, _, _)
UpdateTagsLoop(ts, nid, names, i, held, stored) ==
    IF i > Len(names)
    THEN [raised |-> FALSE, ts |-> ts, nid |-> nid, held |-> held, stored |-> stored]
    ELSE LET g == GetOrCreate(ts, nid, names[i])
         IN IF IsException(g.out)
            THEN [raised |-> TRUE, ts |-> g.ts, nid |-> g.nid, held |-> held,
                  stored |-> stored]
            ELSE UpdateTagsLoop(g.ts, g.nid, names, i + 1, Append(held, g.out.ret[1]),
                                IF g.nid # nid THEN Range(held) ELSE stored)

\* BaseService.update on the entry: setattr for the fields of update_data that the
\* row holds; a non-empty list of names assigned to a relationship raises
\* AttributeError, the commit raises IntegrityError on a taken topic
EntrySetattr(row, update_data) ==
    [f \in DOMAIN row |->
        IF f \in DOMAIN update_data
        THEN (IF f \in {"tags", "concepts"} THEN {} ELSE update_data[f])
        ELSE row[f]]

\* KnowledgeService.update_with_audit, the try body.  db is what is committed when
\* the body ends
UpdateTry(db, cs, id, obj_in, user_id, script) ==
    LET row == db.entries[id]
        g == GenerateEmbedding(obj_in.content, script)
        tl == IF HasField(obj_in, "tags")
              THEN UpdateTagsLoop(db.tags, db.nextTagId, obj_in.tags, 1, <<>>, row.tags)
              ELSE [raised |-> FALSE, ts |-> db.tags, nid |-> db.nextTagId,
                    held |-> <<>>, stored |-> row.tags]
        withTags == [db EXCEPT !.tags = tl.ts, !.nextTagId = tl.nid,
                               !.entries[id].tags = tl.stored]
        cl == IF HasField(obj_in, "concepts")
              THEN ConceptsLoop(cs, obj_in.concepts, 1, <<>>)
              ELSE [raised |-> FALSE, attached |-> <<>>]
        updated == [withTags EXCEPT !.entries[id] = EntrySetattr(@, obj_in)]
    IN IF HasField(obj_in, "content")
       THEN [out |-> Raised(IF IsException(g.out) THEN "RetryError"
                            ELSE IF "embedding" \in KnowledgeUpdateFields THEN "AttributeError"
                            ELSE "ValueError"),
             db |-> db, calls |-> g.calls]
       ELSE IF tl.raised
       THEN [out |-> HTTPException(500, "Failed to create tag"), db |-> withTags, calls |-> 0]
       ELSE IF cl.raised
       THEN [out |-> HTTPException(404, "Concept path not found"), db |-> withTags,
             calls |-> 0]
       ELSE IF \/ (HasField(obj_in, "tags") /\ obj_in.tags # <<>>)
               \/ (HasField(obj_in, "concepts") /\ obj_in.concepts # <<>>)
       THEN [out |-> Raised("AttributeError"), db |-> withTags, calls |-> 0]
       ELSE IF HasField(obj_in, "topic") /\ TopicTaken(db.entries, obj_in.topic, id)
       THEN [out |-> HTTPException(500, "Database error"), db |-> withTags, calls |-> 0]
       ELSE IF ~OriginalStateSerialisable
       THEN [out |-> Raised("StatementError"), db |-> updated, calls |-> 0]
       ELSE [out |-> Returned(<<id>>),
             db |-> [updated EXCEPT !.audits = Append(@, AuditRow(id, user_id, "update"))],
             calls |-> 0]

\* KnowledgeService.update_with_audit, `except Exception`: rollback, raise 500
UpdateExcept(r) ==
    IF IsException(r.out)
    THEN [out |-> HTTPException(500, "Failed to update knowledge entry"), db |-> r.db,
          calls |-> r.calls]
    ELSE r

\* PUT /{knowledge_id}
update_knowledge(knowledge_id, obj_in, script) ==
    /\ providerCalls + MaxAttempts <= MaxProviderCalls
    /\ IF knowledge_id \notin DOMAIN entries
       THEN /\ result' = Outcome("update_knowledge",
                                 HTTPException(404, "Knowledge entry not found"))
            /\ UNCHANGED <<tags, nextTagId, entries, audits, providerCalls>>
       ELSE \E r \in {UpdateExcept(UpdateTry(Database, concepts, knowledge_id, obj_in,
                                             CurrentUser, script))} :
               /\ r.db.nextTagId <= MaxTagId + 1
               /\ tags' = r.db.tags
               /\ nextTagId' = r.db.nextTagId
               /\ entries' = r.db.entries
               /\ audits' = r.db.audits
               /\ providerCalls' = providerCalls + r.calls
               /\ result' = Outcome("update_knowledge", r.out)
    /\ UNCHANGED <<concepts, nextConceptId, nextEntryId, embCache, now, seenTagId, requests>>

(***************************************************************************)
(* Batch operations                                                        *)
(***************************************************************************)
\* what one batched openai.Embedding.acreate call does, and the responses to the
\* successive calls of one operation
BatchScripts ==
    UNION {{[i \in 1..k |-> IF i < k THEN "RateLimitError" ELSE last] :
                last \in IF k = MaxAttempts THEN {"ok", "RateLimitError", "Error"}
                         ELSE {"ok", "Error"}} : k \in 1..MaxAttempts}

\* KnowledgeBatchService._generate_embeddings_batch under @retry, attempt k, for at
\* most batch_size texts: the provider's vectors, or [] for every text on an error
RECURSIVE BatchRetry(_, _, _, _)
BatchRetry(texts, script, vectors, k) ==
    IF script[k] = "ok" THEN [raised |-> FALSE, embeddings |-> vectors, calls |-> k]
    ELSE IF script[k] = "Error"
    THEN [raised |-> FALSE, embeddings |-> [i \in 1..Len(texts) |-> <<>>], calls |-> k]
    ELSE IF k = MaxAttempts THEN [raised |-> TRUE, embeddings |-> <<>>, calls |-> k]
    ELSE BatchRetry(texts, script, vectors, k + 1)

_generate_embeddings_batch(texts, script, vectors) ==
    IF texts = <<>> THEN [raised |-> FALSE, embeddings |-> <<>>, calls |-> 0]
    ELSE BatchRetry(texts, script, vectors, 1)

\* a loop that gives up at the first item that fails
RECURSIVE CreateManyLoopStopsAtFailure(_, _, _, _, _, _, _)
CreateManyLoopStopsAtFailure(db, cs, items, embeddings, user_id, i, created_items) ==
    IF i > Min(Len(items), Len(embeddings)) THEN [db |-> db, created_items |-> created_items]
    ELSE LET r == CreateExcept(CreateTry(db, cs, items[i], user_id, Stored(embeddings[i])))
         IN IF IsException(r.out) THEN [db |-> r.db, created_items |-> created_items]
            ELSE CreateManyLoopStopsAtFailure(r.db, cs, items, embeddings, user_id, i + 1,
                                              Append(created_items, r.out.ret[1]))

\* create_many, `for item, embedding in zip(items, embeddings)` from index i on: an
\* item that fails is skipped
RECURSIVE CreateManyLoop(_, _, _, _, _, _, _)
CreateManyLoop(db, cs, items, embeddings, user_id, i, created_items) ==
    IF i > Min(Len(items), Len(embeddings)) THEN [db |-> db, created_items |-> created_items]
    ELSE LET r == CreateExcept(CreateTry(db, cs, items[i], user_id, Stored(embeddings[i])))
         IN CreateManyLoop(r.db, cs, items, embeddings, user_id, i + 1,
                           IF IsException(r.out) THEN created_items
                           ELSE Append(created_items, r.out.ret[1]))

\* KnowledgeBatchService.create_many, try body and `except Exception`
CreateMany(db, cs, items, user_id, script, vectors) ==
    IF items = <<>> THEN [out |-> Returned(<<>>), db |-> db, calls |-> 0]
    ELSE LET g == _generate_embeddings_batch([i \in 1..Len(items) |-> items[i].content],
                                             script, vectors)
         IN IF g.raised
            THEN [out |-> HTTPException(500, "Failed to create knowledge entries in batch"),
                  db |-> db, calls |-> g.calls]
            ELSE LET l == CreateManyLoop(db, cs, items, g.embeddings, user_id, 1, <<>>)
                 IN [out |-> Returned(l.created_items), db |-> l.db, calls |-> g.calls]

RECURSIVE AttachedAll(_, _, _, _, _)
AttachedAll(seen, es, ts, ids, i) ==
    IF i > Len(ids) THEN seen
    ELSE AttachedAll(Attached(seen, es, ts, ids[i]), es, ts, ids, i + 1)

\* POST /batch
create_many(items, script, vectors) ==
    /\ providerCalls + MaxAttempts <= MaxProviderCalls
    /\ \E r \in {CreateMany(Database, concepts, items, CurrentUser, script, vectors)} :
          /\ r.db.nextEntryId <= MaxEntryId + 1
          /\ r.db.nextTagId <= MaxTagId + 1
          /\ tags' = r.db.tags
          /\ nextTagId' = r.db.nextTagId
          /\ entries' = r.db.entries
          /\ nextEntryId' = r.db.nextEntryId
          /\ audits' = r.db.audits
          /\ providerCalls' = providerCalls + r.calls
          /\ seenTagId' = AttachedAll(seenTagId, r.db.entries, r.db.tags, r.out.ret, 1)
          /\ result' = OutcomeOf("create_many", [items |-> items, script |-> script], r.out)
    /\ UNCHANGED <<concepts, nextConceptId, embCache, now, requests>>

\* KnowledgeBatchService.reindex_embeddings: the rows whose embedding IS NULL get the
\* embedding generated for them when it is not empty
ReindexEmbeddings(es, script, vectorOf) ==
    LET rows == AscSeq({e \in DOMAIN es : es[e].embedding.isnull})
        g == _generate_embeddings_batch([i \in 1..Len(rows) |-> es[rows[i]].content], script,
                                        [i \in 1..Len(rows) |-> vectorOf[rows[i]]])
        updated == {i \in 1..Len(rows) : g.embeddings[i] # <<>>}
    IN IF rows = <<>> THEN [out |-> Returned(<<0>>), es |-> es, calls |-> 0]
       ELSE IF g.raised
       THEN [out |-> HTTPException(500, "Failed to reindex embeddings"), es |-> es,
             calls |-> g.calls]
       ELSE [out |-> Returned(<<Cardinality(updated)>>),
             es |-> [e \in DOMAIN es |->
                        IF \E i \in updated : rows[i] = e
                        THEN [es[e] EXCEPT !.embedding =
                                 Stored(g.embeddings[CHOOSE i \in updated : rows[i] = e])]
                        ELSE es[e]],
             calls |-> g.calls]

reindex_embeddings(script, vectorOf) ==
    /\ providerCalls + MaxAttempts <= MaxProviderCalls
    /\ \E r \in {ReindexEmbeddings(entries, script, vectorOf)} :
          /\ entries' = r.es
          /\ providerCalls' = providerCalls + r.calls
          /\ result' = Outcome("reindex_embeddings", r.out)
    /\ UNCHANGED <<concepts, nextConceptId, tags, nextTagId, nextEntryId, audits,
                   embCache, now, seenTagId, requests>>

\* a loop body that stores whatever vector came back, the empty one included
ReindexRowAlways(row, embedding) == [row EXCEPT !.embedding = Stored(embedding)]

\* reindex_embeddings, the loop body: `if embedding: entry.embedding = embedding`
ReindexRow(row, embedding) ==
    IF embedding # <<>> THEN [row EXCEPT !.embedding = Stored(embedding)] ELSE row

\* KnowledgeBatchService.reindex_embeddings with the rows sent to the provider in
\* chunks of batch_size, the provider answering each text with VectorOf
ReindexInBatches(es, batch_size, script) ==
    LET rows == AscSeq({e \in DOMAIN es : es[e].embedding.isnull})
        g == KnowledgeBatchRetry([i \in 1..Len(rows) |-> es[rows[i]].content], batch_size,
                                 script, 0, 1)
        embeddings == g.out.ret
        zipped == 1..Min(Len(rows), Len(embeddings))
        after == [e \in DOMAIN es |->
                     IF \E i \in zipped : rows[i] = e
                     THEN ReindexRow(es[e], embeddings[CHOOSE i \in zipped : rows[i] = e])
                     ELSE es[e]]
    IN IF rows = <<>>
       THEN [out |-> Returned(<<0>>), es |-> es, calls |-> 0, exhausted |-> FALSE]
       ELSE IF g.exhausted
       THEN [out |-> Returned(<<0>>), es |-> es, calls |-> g.calls, exhausted |-> TRUE]
       ELSE IF IsException(g.out)
       THEN [out |-> HTTPException(500, "Failed to reindex embeddings"), es |-> es,
             calls |-> g.calls, exhausted |-> FALSE]
       ELSE [out |-> Returned(<<Cardinality({i \in zipped : embeddings[i] # <<>>})>>),
             es |-> after, calls |-> g.calls, exhausted |-> FALSE]

\* POST /maintenance/reindex?batch_size=
reindex_embeddings_in_batches(batch_size, script) ==
    /\ providerCalls + Len(script) <= MaxProviderCalls
    /\ \E r \in {ReindexInBatches(entries, batch_size, script)} :
          /\ ~r.exhausted
          /\ entries' = r.es
          /\ providerCalls' = providerCalls + r.calls
          /\ result' = OutcomeOf("reindex_embeddings",
                                 [batch_size |-> batch_size,
                                  answers |-> SubSeq(script, 1, r.calls)], r.out)
    /\ UNCHANGED <<concepts, nextConceptId, tags, nextTagId, nextEntryId, audits,
                   embCache, now, seenTagId, requests>>

\* Concept.children = relationship("Concept", backref="parent", remote_side=[id]):
\* remote_side=[id] makes `children` the many-to-one side, a scalar attribute
ChildrenUselist == FALSE

\* KnowledgeBatchService.cleanup_orphaned, the try body: building the concept query
\* evaluates Concept.children.any(), which raises InvalidRequestError for a scalar
\* attribute, before anything is deleted
CleanupOrphanedTry(ts, cs, es) ==
    LET orphaned_tags == {t \in DOMAIN ts : \A e \in DOMAIN es : t \notin es[e].tags}
        orphaned_concepts ==
            {c \in DOMAIN cs : /\ \A e \in DOMAIN es : c \notin es[e].concepts
                               /\ ~\E child \in DOMAIN cs : cs[child].parent_id = c}
    IN IF ~ChildrenUselist
       THEN [out |-> Raised("InvalidRequestError"), ts |-> ts, cs |-> cs]
       ELSE [out |-> Returned(<<Cardinality(orphaned_tags), Cardinality(orphaned_concepts)>>),
             ts |-> [t \in DOMAIN ts \ orphaned_tags |-> ts[t]],
             cs |-> [c \in DOMAIN cs \ orphaned_concepts |-> cs[c]]]

\* KnowledgeBatchService.cleanup_orphaned, `except Exception`: rollback, raise 500
CleanupOrphanedExcept(r, ts, cs) ==
    IF IsException(r.out)
    THEN [out |-> HTTPException(500, "Failed to clean up orphaned items"),
          ts |-> ts, cs |-> cs]
    ELSE r

CleanupOrphaned(ts, cs, es) == CleanupOrphanedExcept(CleanupOrphanedTry(ts, cs, es), ts, cs)

cleanup_orphaned ==
    /\ \E r \in {CleanupOrphaned(tags, concepts, entries)} :
          /\ tags' = r.ts
          /\ concepts' = r.cs
          /\ result' = Outcome("cleanup_orphaned", r.out)
    /\ UNCHANGED <<nextConceptId, nextTagId, entries, nextEntryId, audits,
                   embCache, providerCalls, now, seenTagId, requests>>

(***************************************************************************)
(* Cleanup of old entries                                                  *)
(***************************************************************************)
MaxNow == 3

\* KnowledgeAudit.user_id = Column(..., nullable=False)
AuditUserNullable == FALSE

\* the audit rows `for entry in old_entries` adds, in primary-key order of the entries
CleanupAudits(old_entries) ==
    [i \in 1..Len(old_entries) |-> AuditRow(old_entries[i], None, "cleanup")]

\* a query that takes a row never accessed to be old
CleanupOldQueryNullsOld(es, cutoff) ==
    AscSeq({e \in DOMAIN es : \/ es[e].last_accessed_at = None
                              \/ es[e].last_accessed_at < cutoff})

\* filter(Knowledge.last_accessed_at < cutoff): the comparison is never true for NULL
CleanupOldQuery(es, cutoff) ==
    AscSeq({e \in DOMAIN es : /\ es[e].last_accessed_at # None
                              /\ es[e].last_accessed_at < cutoff})

\* KnowledgeService.cleanup_old_entries, the try body: the rows the query selects
\* each get a `cleanup` audit row with user_id=None, which the commit rejects
\* (NOT NULL); no entry is deleted
CleanupOldTry(es, as, t, days) ==
    LET cutoff == t - days
        old_entries == CleanupOldQuery(es, cutoff)
        added == CleanupAudits(old_entries)
    IN IF ~AuditUserNullable /\ \E i \in 1..Len(added) : added[i].user_id = None
       THEN [out |-> Raised("IntegrityError"), as |-> as]
       ELSE [out |-> Returned(<<>>), as |-> as \o added]

\* KnowledgeService.cleanup_old_entries, `except Exception`: rollback, raise 500
CleanupOldExcept(r, as) ==
    IF IsException(r.out)
    THEN [out |-> HTTPException(500, "Failed to clean up old entries"), as |-> as]
    ELSE r

cleanup_old_entries(days) ==
    /\ \E r \in {CleanupOldExcept(CleanupOldTry(entries, audits, now, days), audits)} :
          /\ audits' = r.as
          /\ result' = OutcomeOf("cleanup_old_entries", [days |-> days], r.out)
    /\ UNCHANGED <<concepts, nextConceptId, tags, nextTagId, entries, nextEntryId,
                   embCache, providerCalls, now, seenTagId, requests>>

\* a day passes
Tick ==
    /\ now < MaxNow
    /\ now' = now + 1
    /\ UNCHANGED <<dbVars, embCache, providerCalls, seenTagId, requests, result>>

(***************************************************************************)
(* Initial state: empty tables, empty caches                               *)
(***************************************************************************)
Init ==
    /\ concepts = EmptyFn
    /\ nextConceptId = 1
    /\ tags = EmptyFn
    /\ nextTagId = 1
    /\ entries = EmptyFn
    /\ nextEntryId = 1
    /\ audits = <<>>
    /\ embCache = EmptyFn
    /\ providerCalls = 0
    /\ now = 1
    /\ seenTagId = EmptyFn
    /\ requests = EmptyFn
    /\ result = Outcome("init", Returned(<<>>))

(***************************************************************************)
(* The concept graph under its three handlers                              *)
(***************************************************************************)
ConceptPatches ==
    {EmptyFn}
    \cup {[name |-> n] : n \in ConceptNames}
    \cup {[parent_id |-> p] : p \in {None} \cup ConceptIds}
    \cup {[name |-> "cat", parent_id |-> p] : p \in ConceptIds}

NextConcept ==
    \/ \E n \in ConceptNames, p \in {None} \cup ConceptIds : create_concept(n, p)
    \/ \E c \in ConceptIds, obj_in \in ConceptPatches : update_concept(c, obj_in)
    \/ \E c \in ConceptIds : delete_concept(c)

SpecConcept == Init /\ [][NextConcept]_vars

NextEmbed ==
    \/ \E t \in Texts, script \in ProviderScripts : generate_embedding(t, script)
    \/ \E t \in Texts, script \in ProviderScripts : _generate_embedding(t, script)
    \/ clear_cache

SpecEmbed == Init /\ [][NextEmbed]_vars

(***************************************************************************)
(* The entry store under a provider that may fail on any call              *)
(***************************************************************************)
EntryIds == 1..MaxEntryId
TagIds == 1..MaxTagId

StoreItems == {KnowledgeCreate(t, c, <<>>, <<>>) : t \in Topics, c \in Texts}
StoreBatches ==
    {<<>>} \cup {<<i>> : i \in StoreItems}
           \cup {<<i, j>> : i \in {x \in StoreItems : x.content = "alpha"},
                            j \in {x \in StoreItems : x.content = "beta"}}
StorePatches == {[content |-> "beta"], [tags |-> <<>>]} \cup {[topic |-> t] : t \in Topics}

NextStore ==
    \/ \E obj_in \in StoreItems, script \in ProviderScripts :
          create_with_relations(obj_in, script)
    \/ \E items \in StoreBatches, script \in BatchScripts :
          \E vectors \in [1..Len(items) -> ProviderVectors] :
             create_many(items, script, vectors)
    \/ \E e \in EntryIds, obj_in \in StorePatches, script \in ProviderScripts :
          update_knowledge(e, obj_in, script)
    \/ \E script \in BatchScripts, vectorOf \in [EntryIds -> ProviderVectors] :
          reindex_embeddings(script, vectorOf)
    \/ \E e \in EntryIds : delete_knowledge(e)

SpecStore == Init /\ [][NextStore]_vars

(***************************************************************************)
(* Tags through entry creation and the tag endpoints                       *)
(***************************************************************************)
\* the provider answers the first call
Answered == {[i \in 1..1 |-> Responded(<<1, 0>>)]}

TagLists == {<<>>, <<"ta">>, <<"ta", "tb">>, <<"tb", "ta">>, <<"ta", "ta">>}
TaggedItems == {KnowledgeCreate(t, "alpha", ts, <<>>) : t \in Topics, ts \in TagLists}

NextTags ==
    \/ \E obj_in \in TaggedItems, script \in Answered : create_with_relations(obj_in, script)
    \/ \E n \in TagNames : get_or_create(n)
    \/ \E n \in TagNames : create_tag(n)
    \/ \E t \in TagIds, n \in TagNames : update_tag(t, [name |-> n])
    \/ \E t \in TagIds : delete_tag(t)

SpecTags == Init /\ [][NextTags]_vars

(***************************************************************************)
(* Orphan cleanup over tags, concept chains and entries                    *)
(***************************************************************************)
ChainNames == {"animal", "dog"}
PathLists == {<<>>, <<(<<"animal">>)>>, <<(<<"animal", "dog">>)>>}
LinkedItems ==
    {KnowledgeCreate("T1", "alpha", ts, ps) : ts \in {<<>>, <<"ta">>}, ps \in PathLists}

NextCleanup ==
    \/ \E n \in ChainNames, p \in {None, 1} : create_concept(n, p)
    \/ \E c \in ConceptIds : delete_concept(c)
    \/ \E obj_in \in LinkedItems, script \in Answered : create_with_relations(obj_in, script)
    \/ \E e \in EntryIds : delete_knowledge(e)
    \/ get_or_create("tb")
    \/ cleanup_orphaned

SpecCleanup == Init /\ [][NextCleanup]_vars

(***************************************************************************)
(* Batch creation over items that may fail one by one                      *)
(***************************************************************************)
MaxBatch == 3

\* an item without relations, one with a tag and a concept path, one naming a tag twice
Plain == [tags |-> <<>>, concepts |-> <<>>]
Linked == [tags |-> <<"ta">>, concepts |-> <<(<<"animal">>)>>]
TwiceTagged == [tags |-> <<"ta", "ta">>, concepts |-> <<>>]
BatchItems(shapes) ==
    {KnowledgeCreate(t, "alpha", sh.tags, sh.concepts) : t \in Topics, sh \in shapes}
\* batches of up to MaxBatch items: any item alone or in second place, items without
\* relations around it
BatchLists ==
    UNION {{items \in [1..n -> BatchItems({Plain, Linked, TwiceTagged})] :
                \A i \in 1..n : i # Min(n, 2) => items[i] \in BatchItems({Plain})}
           : n \in 1..MaxBatch}

NextBatch ==
    \/ create_concept("animal", None)
    \/ \E c \in ConceptIds : delete_concept(c)
    \/ \E items \in BatchLists :
          create_many(items, <<"ok">>, [i \in 1..Len(items) |-> <<1, 0>>])

SpecBatch == Init /\ [][NextBatch]_vars

(***************************************************************************)
(* Single embeddings under a provider that answers every call somehow      *)
(***************************************************************************)
\* what the provider would answer to the first, second and third call of one operation
ProviderAnswers == [1..MaxAttempts -> ProviderResponses]

NextRetry ==
    \/ \E t \in Texts, script \in ProviderAnswers : generate_embedding(t, script)
    \/ \E t \in Texts, script \in ProviderAnswers : _generate_embedding(t, script)
    \/ clear_cache

SpecRetry == Init /\ [][NextRetry]_vars

(***************************************************************************)
(* Embeddings in chunks, over a cache that single embeddings have warmed   *)
(***************************************************************************)
TextLists == UNION {[1..n -> Texts] : n \in 0..MaxTexts}
BatchSizes == 1..MaxBatchSize
BatchAnswers == [1..MaxBatchCalls -> {"ok", "RateLimitError", "Error"}]
\* any first answer to a single embed, rate limits after it
FirstAnswers == {script \in ProviderAnswers : \A k \in 2..MaxAttempts : script[k] = RateLimited}

NextChunks ==
    \/ \E texts \in TextLists, batch_size \in BatchSizes, script \in BatchAnswers :
          generate_embeddings_batch(texts, batch_size, script)
    \/ \E texts \in TextLists, batch_size \in BatchSizes, script \in BatchAnswers :
          knowledge_embeddings_batch(texts, batch_size, script)
    \/ \E t \in Texts, script \in FirstAnswers : generate_embedding(t, script)

SpecChunks == Init /\ [][NextChunks]_vars

(***************************************************************************)
(* The concept graph under create and update alone                         *)
(***************************************************************************)
NextLevels ==
    \/ \E n \in ConceptNames, p \in {None} \cup ConceptIds : create_concept(n, p)
    \/ \E c \in ConceptIds, obj_in \in ConceptPatches : update_concept(c, obj_in)

SpecLevels == Init /\ [][NextLevels]_vars

(***************************************************************************)
(* Every operation that touches entries, over several days                 *)
(***************************************************************************)
AuditItems == {KnowledgeCreate(t, "alpha", <<>>, <<>>) : t \in Topics}
AuditBatches == {<<i>> : i \in AuditItems} \cup {<<i, j>> : i \in AuditItems, j \in AuditItems}

NextAudit ==
    \/ \E obj_in \in AuditItems, script \in Answered : create_with_relations(obj_in, script)
    \/ \E e \in EntryIds, t \in Topics, script \in Answered :
          update_knowledge(e, [topic |-> t], script)
    \/ \E l \in 1..MaxLimit : search_similar(<<1, 0>>, l, 7, {}, {})
    \/ \E days \in 1..2 : cleanup_old_entries(days)
    \/ cleanup_orphaned
    \/ \E items \in AuditBatches, script \in {<<"ok">>, <<"Error">>} :
          create_many(items, script, [i \in 1..Len(items) |-> <<1, 0>>])
    \/ \E script \in {<<"ok">>}, vectorOf \in [EntryIds -> {<<1, 0>>}] :
          reindex_embeddings(script, vectorOf)
    \/ \E e \in EntryIds : delete_knowledge(e)
    \/ Tick

SpecAudit == Init /\ [][NextAudit]_vars

(***************************************************************************)
(* Entry update over tagged and linked entries                             *)
(***************************************************************************)
UpdateItems ==
    {KnowledgeCreate("T1", "alpha", ts, ps) : ts \in {<<>>, <<"ta">>},
                                              ps \in {<<>>, <<(<<"animal">>)>>}}
UpdatePatches ==
    {[tags |-> ts] : ts \in {<<>>, <<"ta">>, <<"tb">>}}
        \cup {[concepts |-> ps] : ps \in {<<>>, <<(<<"animal">>)>>, <<(<<"dog">>)>>}}
        \cup {[topic |-> "T2"], [content |-> "beta"]}

NextUpdate ==
    \/ \E n \in ChainNames : create_concept(n, None)
    \/ \E obj_in \in UpdateItems, script \in Answered : create_with_relations(obj_in, script)
    \/ \E e \in EntryIds, obj_in \in UpdatePatches, script \in Answered :
          update_knowledge(e, obj_in, script)
    \/ \E e \in EntryIds : delete_knowledge(e)

SpecUpdate == Init /\ [][NextUpdate]_vars

(***************************************************************************)
(* Filtered search over stored entries drawn from a bounded set            *)
(***************************************************************************)
MaxFiltered == 2

FilterEmbeddings == {NullEmbedding, Stored(<<1, 0>>)}
FilterTagSets == {{}, {"ta"}, {"ta", "tb"}}
FilterConceptSets == {{}, {"dog"}}

InitFilter ==
    /\ tags = [t \in 1..2 |-> TagRow(IF t = 1 THEN "ta" ELSE "tb")]
    /\ nextTagId = 3
    /\ concepts = [c \in 1..2 |-> IF c = 1 THEN ConceptRow("animal", None, 0)
                                  ELSE ConceptRow("dog", 1, 1)]
    /\ nextConceptId = 3
    /\ \E n \in 0..MaxFiltered :
        /\ \E embs \in [1..n -> FilterEmbeddings], ts \in [1..n -> SUBSET (1..2)],
              cs \in [1..n -> SUBSET (1..2)] :
            entries = [i \in 1..n |->
                          EntryRow("T" \o ToString(i), "text", embs[i], ts[i], cs[i], None)]
        /\ nextEntryId = n + 1
    /\ audits = <<>>
    /\ embCache = EmptyFn
    /\ providerCalls = 0
    /\ now = 1
    /\ seenTagId = EmptyFn
    /\ requests = EmptyFn
    /\ result = Outcome("init", Returned(<<>>))

NextFilter ==
    \E l \in 1..MaxLimit, ft \in FilterTagSets, fc \in FilterConceptSets :
        search_similar(<<1, 0>>, l, 7, ft, fc)

SpecFilter == InitFilter /\ [][NextFilter]_vars

(***************************************************************************)
(* Reindexing over stored entries drawn from a bounded set                 *)
(***************************************************************************)
MaxReindexed == 3

ReindexEmbeddingsStored == {NullEmbedding, Stored(<<1, 0>>)}

InitReindex ==
    /\ \E n \in 0..MaxReindexed :
        /\ \E embs \in [1..n -> ReindexEmbeddingsStored], texts \in [1..n -> Texts] :
            entries = [i \in 1..n |->
                          EntryRow("T" \o ToString(i), texts[i], embs[i], {}, {}, None)]
        /\ nextEntryId = n + 1
    /\ concepts = EmptyFn
    /\ nextConceptId = 1
    /\ tags = EmptyFn
    /\ nextTagId = 1
    /\ audits = <<>>
    /\ embCache = EmptyFn
    /\ providerCalls = 0
    /\ now = 1
    /\ seenTagId = EmptyFn
    /\ requests = EmptyFn
    /\ result = Outcome("init", Returned(<<>>))

NextReindex ==
    \E batch_size \in BatchSizes, script \in BatchAnswers :
        reindex_embeddings_in_batches(batch_size, script)

SpecReindex == InitReindex /\ [][NextReindex]_vars

(***************************************************************************)
(* Reads of the concept forest, over forests drawn from a bounded set      *)
(***************************************************************************)
MaxTreeSize == 4

TreeNames == <<"animal", "dog", "cat", "bird">>

\* the number of parent links above c in the table given by `parent`
RECURSIVE LinksAbove(_, _, _)
LinksAbove(parent, c, k) ==
    IF k = 0 \/ parent[c] = None THEN 0 ELSE 1 + LinksAbove(parent, parent[c], k - 1)

InitTree ==
    /\ \E n \in 0..MaxTreeSize :
        /\ \E parent \in [1..n -> {None} \cup 1..n] :
            /\ \A c \in 1..n : LinksAbove(parent, c, n + 1) <= n
            /\ concepts = [c \in 1..n |->
                              ConceptRow(TreeNames[c], parent[c], LinksAbove(parent, c, n))]
        /\ nextConceptId = n + 1
    /\ tags = EmptyFn
    /\ nextTagId = 1
    /\ entries = EmptyFn
    /\ nextEntryId = 1
    /\ audits = <<>>
    /\ embCache = EmptyFn
    /\ providerCalls = 0
    /\ now = 1
    /\ seenTagId = EmptyFn
    /\ requests = EmptyFn
    /\ result = Outcome("init", Returned(<<>>))

NextTree ==
    \/ \E c \in 1..MaxTreeSize : get_ancestors(c)
    \/ \E c \in 1..MaxTreeSize : get_descendants(c)

SpecTree == InitTree /\ [][NextTree]_vars

(***************************************************************************)
(* Concurrent get_or_create requests                                       *)
(***************************************************************************)
NextRace ==
    \/ \E r \in Requests, n \in TagNames : get_or_create_start(r, n)
    \/ \E r \in Requests : get_or_create_lookup(r)
    \/ \E r \in Requests : get_or_create_existing(r)
    \/ \E r \in Requests : get_or_create_commit(r)
    \/ \E t \in TagIds : delete_tag(t)

SpecRace == Init /\ [][NextRace]_vars

(***************************************************************************)
(* Concurrent reparent requests                                            *)
(***************************************************************************)
NextReparent ==
    \/ \E n \in ConceptNames : create_concept(n, None)
    \/ \E r \in Requests, c \in ConceptIds, p \in ConceptIds : reparent_start(r, c, p)
    \/ \E r \in Requests : reparent_check(r)
    \/ \E r \in Requests : reparent_write(r)

SpecReparent == Init /\ [][NextReparent]_vars

(***************************************************************************)
(* The parent relation, as the data model defines it                       *)
(***************************************************************************)
RECURSIVE UpSet(_, _, _)
UpSet(cs, c, k) ==
    IF k = 0 \/ c \notin DOMAIN cs \/ cs[c].parent_id = None THEN {}
    ELSE {cs[c].parent_id} \cup UpSet(cs, cs[c].parent_id, k - 1)

\* the concepts reached from c by one or more parent links
ProperAncestors(cs, c) == UpSet(cs, c, Cardinality(DOMAIN cs) + 1)

IsForest(cs) ==
    \A c \in DOMAIN cs :
        /\ cs[c].parent_id \in DOMAIN cs \cup {None}
        /\ c \notin ProperAncestors(cs, c)

Depth(cs, c) == Cardinality(ProperAncestors(cs, c))

CycleError == HTTPException(400, "Cannot create circular reference in concept hierarchy")

\* C1: for existing concepts X and Y, reparent(X, Y) ends with CycleError exactly
\* when X = Y or X is an ancestor of Y
C1_CycleErrorIffAncestor ==
    [][\A X \in ConceptIds, Y \in ConceptIds :
          (X \in DOMAIN concepts /\ Y \in DOMAIN concepts
             /\ update_concept(X, [parent_id |-> Y]))
          => ((result'.out = CycleError) <=> (X = Y \/ X \in ProperAncestors(concepts, Y)))]_vars

\* the rejection itself is exact: the reparent request fails exactly in those cases
ReparentFailsIffAncestor ==
    [][\A X \in ConceptIds, Y \in ConceptIds :
          (X \in DOMAIN concepts /\ Y \in DOMAIN concepts
             /\ update_concept(X, [parent_id |-> Y]))
          => (IsException(result'.out) <=> (X = Y \/ X \in ProperAncestors(concepts, Y)))]_vars

\* C2: after any sequence of concept create, update and delete, every parent link
\* leads to an existing concept and no concept is its own ancestor
C2_ParentGraphIsForest == IsForest(concepts)

\* a reparent has succeeded and left a chain of three concepts
C2_Witness ==
    /\ result.op = "update_concept" /\ result.out.status = 200
    /\ \E c \in DOMAIN concepts : Depth(concepts, c) = 2

(***************************************************************************)
(* Embedding cache                                                         *)
(***************************************************************************)

\* the call just made was op(t) and it produced a vector
JustEmbedded(op, t) ==
    /\ result.op = op
    /\ result.arg.text = t
    /\ result.out.status = 200
    /\ result.out.ret # <<>>

\* C3: when embed(t) has just succeeded, the next embed(t) through the same path
\* issues no further provider call and returns the same vector; this is required of
\* the standalone embeddings service and of the path used by create and search
C3_WarmCacheSingleProviderCall ==
    [][\A t \in Texts, script \in ProviderScripts :
        /\ (JustEmbedded("generate_embedding", t) /\ generate_embedding(t, script))
              => (providerCalls' = providerCalls /\ result'.out = result.out)
        /\ (JustEmbedded("_generate_embedding", t) /\ _generate_embedding(t, script))
              => (providerCalls' = providerCalls /\ result'.out = result.out)]_vars

\* the same requirement on the standalone embeddings service alone
StandaloneWarmCacheSingleProviderCall ==
    [][\A t \in Texts, script \in ProviderScripts :
        (JustEmbedded("generate_embedding", t) /\ generate_embedding(t, script))
            => (providerCalls' = providerCalls /\ result'.out = result.out)]_vars

(***************************************************************************)
(* Ranking                                                                 *)
(***************************************************************************)
Score(es, q, e) == _calculate_similarity(q, es[e].embedding.vec)

\* the candidates whose score is at least the threshold
Qualifying(es, q, m) ==
    {e \in DOMAIN es : ~es[e].embedding.isnull /\ AtLeast(Score(es, q, e), m)}

\* a comes before b: higher score, or equal score and earlier in candidate order
Precedes(es, q, a, b) ==
    \/ SimLess(Score(es, q, b), Score(es, q, a))
    \/ (~SimLess(Score(es, q, a), Score(es, q, b)) /\ a < b)

RankOf(es, q, m, e) ==
    1 + Cardinality({a \in Qualifying(es, q, m) \ {e} : Precedes(es, q, a, e)})

\* the last call was a search without filters that returned a list
SearchReturned ==
    /\ result.op = "search_similar"
    /\ result.arg.filter_tags = {}
    /\ result.arg.filter_concepts = {}
    /\ result.out.status = 200

\* C4: for limit >= 0, a search that returns gives the first `limit` elements of the
\* qualifying candidates (score >= min_similarity) ordered by descending score, ties
\* in candidate order: position k holds the qualifying candidate of rank k, for every
\* k up to the cap, and nothing else is returned
C4_RankIsCappedStableDescending ==
    (SearchReturned /\ result.arg.limit >= 0)
        => LET q == result.arg.query_embedding
               m == result.arg.min_similarity
               l == result.arg.limit
               ret == result.out.ret
               Q == Qualifying(entries, q, m)
           IN /\ Len(ret) = Min(l, Cardinality(Q))
              /\ \A e \in Q : RankOf(entries, q, m, e) <= l
                                => ret[RankOf(entries, q, m, e)] = e

\* a search capped at 2 returned entries 2 and 3, which tie, in candidate order and
\* ahead of entry 1, which is earlier in candidate order, qualifies and scores lower
C4_Witness ==
    /\ SearchReturned
    /\ result.arg.limit = 2
    /\ result.arg.min_similarity = 7
    /\ result.out.ret = <<2, 3>>
    /\ DOMAIN entries = {1, 2, 3}
    /\ entries[1].embedding = Stored(<<1, 1>>)
    /\ entries[2].embedding = Stored(<<1, 0>>)
    /\ entries[3].embedding = Stored(<<1, 0>>)

\* C5: for every limit, a search that returns gives at most max(limit, 0) entries,
\* so none for limit <= 0, negative limits included
C5_LengthAtMostLimit ==
    SearchReturned => Len(result.out.ret) <= Max(result.arg.limit, 0)

\* C6: a search never fails, whatever missing, empty or zero-norm vectors are stored
\* and also for a zero-norm query; no entry with such a vector is returned
C6_SearchNeverFailsOnDegenerateVectors ==
    result.op = "search_similar"
        => /\ result.out.status = 200
           /\ \A i \in 1..Len(result.out.ret) :
                 LET emb == entries[result.out.ret[i]].embedding
                 IN ~emb.isnull /\ NormSq(emb.vec) # 0

(***************************************************************************)
(* Stored embeddings                                                       *)
(***************************************************************************)
\* C7: every stored entry's embedding is absent (NULL) or a non-empty vector of
\* non-zero magnitude, whatever the provider did during create, create_many, update
\* and reindex
C7_StoredEmbeddingNullOrNonZero ==
    \A e \in DOMAIN entries :
        \/ entries[e].embedding.isnull
        \/ (entries[e].embedding.vec # <<>> /\ NormSq(entries[e].embedding.vec) # 0)

(***************************************************************************)
(* Orphan cleanup                                                          *)
(***************************************************************************)
\* tags associated with no entry
OrphanTags(ts, es) == {t \in DOMAIN ts : ~\E e \in DOMAIN es : t \in es[e].tags}

\* concepts associated with no entry and parent of no concept
OrphanConcepts(cs, es) ==
    {c \in DOMAIN cs : /\ ~\E e \in DOMAIN es : c \in es[e].concepts
                       /\ ~\E d \in DOMAIN cs : cs[d].parent_id = c}

\* C8: right after a cleanup_orphaned run, with nothing changed since, a further run
\* returns tags_removed = 0 and concepts_removed = 0
C8_CleanupOrphanedIdempotent ==
    result.op = "cleanup_orphaned"
        => CleanupOrphaned(tags, concepts, entries).out = Returned(<<0, 0>>)

\* C9: a cleanup_orphaned run deletes exactly the tags with no entry and exactly the
\* concepts with no entry and no child, nothing else, and returns the two counts
C9_CleanupOrphanedDeletesExactlyOrphans ==
    [][cleanup_orphaned
        => LET ot == OrphanTags(tags, entries)
               oc == OrphanConcepts(concepts, entries)
           IN /\ tags' = [t \in DOMAIN tags \ ot |-> tags[t]]
              /\ concepts' = [c \in DOMAIN concepts \ oc |-> concepts[c]]
              /\ result'.out = Returned(<<Cardinality(ot), Cardinality(oc)>>)]_vars

(***************************************************************************)
(* Tag get-or-create                                                       *)
(***************************************************************************)
TagNamesOf(es, ts, e) == {ts[t].name : t \in es[e].tags}

OneTagRowPerName ==
    \A t1 \in DOMAIN tags, t2 \in DOMAIN tags : tags[t1].name = tags[t2].name => t1 = t2

\* an entry created with tags carries exactly the tag names it was given
CreatedEntryCarriesItsTags ==
    \A obj_in \in TaggedItems, script \in Answered :
        (create_with_relations(obj_in, script) /\ result'.out.status = 200)
            => TagNamesOf(entries', tags', result'.out.ret[1]) = Range(obj_in.tags)

\* C10 as stated: an entry created with tags [a, b], in either order, has exactly the
\* tag names {a, b}; any later get_or_create(a) returns the id the entry creation
\* attached for a; there is never more than one tag row per name
C10_TagGetOrCreateIdempotent ==
    /\ []OneTagRowPerName
    /\ [][/\ CreatedEntryCarriesItsTags
          /\ \A a \in TagNames :
                (get_or_create(a) /\ a \in DOMAIN seenTagId)
                    => result'.out = Returned(<<seenTagId[a]>>)]_vars

\* C10, for a tag row that is still there: the same, where the later get_or_create(a)
\* returns the id attached before as long as that row has been neither deleted nor
\* renamed since
C10_TagGetOrCreateWhileRowRemains ==
    /\ []OneTagRowPerName
    /\ [][/\ CreatedEntryCarriesItsTags
          /\ \A a \in TagNames :
                (/\ get_or_create(a)
                 /\ a \in DOMAIN seenTagId
                 /\ seenTagId[a] \in DOMAIN tags
                 /\ tags[seenTagId[a]].name = a)
                    => result'.out = Returned(<<seenTagId[a]>>)]_vars

\* an entry carries two tags and get_or_create has just returned, for a name an entry
\* creation attached, the id attached then
C10_Witness ==
    /\ result.op = "get_or_create"
    /\ result.arg.name \in DOMAIN seenTagId
    /\ result.out = Returned(<<seenTagId[result.arg.name]>>)
    /\ \E e \in DOMAIN entries :
          /\ Cardinality(entries[e].tags) = 2
          /\ seenTagId[result.arg.name] \in entries[e].tags

(***************************************************************************)
(* Batch creation                                                          *)
(***************************************************************************)
\* the embedding stage of the create_many call just made gave no item a vector: its
\* last provider response was a failure
NoItemEmbedded(r) ==
    /\ r.op = "create_many"
    /\ r.arg.items # <<>>
    /\ r.arg.script[Len(r.arg.script)] # "ok"

\* C11: when the provider fails on the chunk of a create_many call, so that no item
\* gets an embedding, the call creates no entry and no audit row and the caller gets an
\* error, not a list of created entries
C11_CreateManyFailsWithoutEmbeddings ==
    [][NoItemEmbedded(result')
        => /\ IsException(result'.out)
           /\ entries' = entries
           /\ audits' = audits]_vars

\* item can be created when the topics in `taken` are in use: its topic is free, every
\* concept path resolves, no tag and no concept is named twice
Creatable(cs, item, taken) ==
    /\ item.topic \notin taken
    /\ \A i \in 1..Len(item.concepts) : get_by_path(cs, item.concepts[i]) # None
    /\ ~HasDuplicates(item.tags)
    /\ ~HasDuplicates([i \in 1..Len(item.concepts) |-> get_by_path(cs, item.concepts[i])])

\* the indices of the items that can be created, each attempted in input order after
\* the ones before it
RECURSIVE CreatableIndices(_, _, _, _)
CreatableIndices(cs, items, i, taken) ==
    IF i > Len(items) THEN <<>>
    ELSE IF Creatable(cs, items[i], taken)
    THEN <<i>> \o CreatableIndices(cs, items, i + 1, taken \cup {items[i].topic})
    ELSE CreatableIndices(cs, items, i + 1, taken)

ColdEmbed ==
    \/ result'.op = "generate_embedding" /\ hash(result'.arg.text) \notin DOMAIN embCache
    \/ result'.op = "_generate_embedding"

AllRateLimited(script) == \A k \in 1..MaxAttempts : script[k] = RateLimited

\* C13: an embed call with a cold cache makes at least one and at most 3 provider
\* calls, every call but the last was answered with a rate limit, and when all 3 are
\* rate-limited the caller gets an error, not a vector, and nothing is cached
C13_RetryOnlyOnRateLimitThenError ==
    [][ColdEmbed
        => LET script == result'.arg.script
               n == providerCalls' - providerCalls
           IN /\ n \in 1..3
              /\ \A k \in 1..(n - 1) : script[k] = RateLimited
              /\ AllRateLimited(script)
                    => /\ n = 3
                       /\ IsException(result'.out)
                       /\ embCache' = embCache]_vars

\* an embed call ended with an error after three rate-limited provider calls
C13_Witness ==
    /\ result.op \in {"generate_embedding", "_generate_embedding"}
    /\ AllRateLimited(result.arg.script)
    /\ result.out = Raised("RetryError")
    /\ providerCalls >= 3

(***************************************************************************)
(* Provider failures and chunks                                            *)
(***************************************************************************)
BatchOps == {"generate_embeddings_batch", "_generate_embeddings_batch"}

\* the first index of each chunk of a list of n texts
ChunkStarts(n, batch_size) == {i \in 1..n : (i - 1) % batch_size = 0}
ChunkOf(n, batch_size, i) == i..Min(i + batch_size - 1, n)

\* the provider responses of the run that returned: those after the last rate limit
\* among the answers the operation got
LastRun(answers) ==
    LET limited == {k \in 1..Len(answers) : answers[k] = "RateLimitError"}
        start == IF limited = {} THEN 1 ELSE 1 + CHOOSE k \in limited : \A l \in limited : l <= k
    IN SubSeq(answers, start, Len(answers))

\* the vector for a text: the cached one if the service held one, else the provider's
VectorFor(op, cache, t) ==
    IF op = "generate_embeddings_batch" /\ hash(t) \in DOMAIN cache THEN cache[hash(t)]
    ELSE VectorOf[t]

\* the chunks of the returned list that are empty vectors throughout
EmptyChunks(ret, batch_size) ==
    {i \in ChunkStarts(Len(ret), batch_size) :
        \A j \in ChunkOf(Len(ret), batch_size, i) : ret[j] = <<>>}

\* C14: an embed call whose first provider call fails, not with a rate limit, makes
\* that one call and returns the empty vector; a batch call that returns has one
\* chunk of empty vectors for each such failure in its last run, and every item
\* outside those chunks has its computed (or cached) vector
C14_ProviderFailureGivesEmptyVectors ==
    [][/\ (ColdEmbed /\ result'.arg.script[1].kind = "Error")
            => /\ providerCalls' = providerCalls + 1
               /\ result'.out = Returned(<<>>)
       /\ (result'.op \in BatchOps /\ result'.out.status = 200)
            => LET texts == result'.arg.texts
                   batch_size == result'.arg.batch_size
                   ret == result'.out.ret
                   run == LastRun(result'.arg.answers)
                   failed == EmptyChunks(ret, batch_size)
               IN /\ Len(ret) = Len(texts)
                  /\ Cardinality(failed) = Len(SelectSeq(run, LAMBDA a : a = "Error"))
                  /\ \A i \in 1..Len(ret) :
                        (\E f \in failed : i \in ChunkOf(Len(ret), batch_size, f))
                        \/ ret[i] = VectorFor(result'.op, embCache, texts[i])]_vars

\* a batch of two chunks returned the first text's vector and, for the second chunk,
\* whose provider call failed, the empty vector
C14_Witness ==
    /\ result.op \in BatchOps
    /\ result.out.status = 200
    /\ result.arg.batch_size = 1
    /\ result.arg.answers = <<"ok", "Error">>
    /\ Len(result.out.ret) = 2
    /\ result.out.ret[1] = VectorOf[result.arg.texts[1]]
    /\ result.out.ret[2] = <<>>

\* C15: a batch call that returns gives one vector per text, element i being the
\* vector for texts[i], cached or computed, or the empty vector, and then only with
\* its whole chunk and after a provider failure
C15_BatchKeepsLengthAndOrder ==
    [][(result'.op \in BatchOps /\ result'.out.status = 200)
        => LET texts == result'.arg.texts
               batch_size == result'.arg.batch_size
               ret == result'.out.ret
               run == LastRun(result'.arg.answers)
           IN /\ Len(ret) = Len(texts)
              /\ \A i \in 1..Len(ret) :
                    \/ ret[i] = VectorFor(result'.op, embCache, texts[i])
                    \/ /\ ret[i] = <<>>
                       /\ \E f \in EmptyChunks(ret, batch_size) :
                             i \in ChunkOf(Len(ret), batch_size, f)
                       /\ \E k \in 1..Len(run) : run[k] = "Error"]_vars

\* after a rate limit and a retry, a chunk of two returned the cached vector of its
\* first text, which a single embed had stored, and the computed vector of its second
C15_Witness ==
    /\ result.op = "generate_embeddings_batch"
    /\ result.out.status = 200
    /\ result.arg.texts = <<"beta", "alpha">>
    /\ result.arg.batch_size = 2
    /\ result.arg.answers = <<"RateLimitError", "ok">>
    /\ hash("beta") \in DOMAIN embCache
    /\ embCache[hash("beta")] \in ProviderVectors
    /\ result.out.ret = <<embCache[hash("beta")], VectorOf["alpha"]>>

(***************************************************************************)
(* Concept levels and concept creation                                     *)
(***************************************************************************)
\* C16: in every state reached by concept create, reparent and update, a concept
\* without a parent has level 0 and any other concept has its parent's level + 1
C16_LevelIsParentLevelPlusOne ==
    \A c \in DOMAIN concepts :
        IF concepts[c].parent_id = None THEN concepts[c].level = 0
        ELSE /\ concepts[c].parent_id \in DOMAIN concepts
             /\ concepts[c].level = concepts[concepts[c].parent_id].level + 1

\* C17: concept create fails with a validation error (400) when a concept with the
\* same name and parent exists, with a not-found error (404) when the parent given
\* does not exist, leaving the graph as it was in both cases, and otherwise adds one
\* concept at its parent's level + 1, or 0 for a root
C17_ConceptCreateDistinguishesFailures ==
    [][\A n \in ConceptNames, p \in {None} \cup ConceptIds :
          create_concept(n, p)
          => IF ConceptsAt(concepts, n, p) # {}
             THEN result'.out.status = 400 /\ concepts' = concepts
             ELSE IF p # None /\ p \notin DOMAIN concepts
             THEN result'.out.status = 404 /\ concepts' = concepts
             ELSE /\ result'.out.status = 200
                  /\ \E new \in ConceptIds \ DOMAIN concepts :
                        /\ DOMAIN concepts' = DOMAIN concepts \cup {new}
                        /\ concepts'[new] =
                              ConceptRow(n, p, IF p = None THEN 0 ELSE concepts[p].level + 1)
                        /\ \A c \in DOMAIN concepts : concepts'[c] = concepts[c]]_vars

(***************************************************************************)
(* Entries, their relations and their audit rows                           *)
(***************************************************************************)
\* C18: when entry create or entry update fails, the tables are exactly as before the
\* call: no new entry, tag, association, field value or audit row
C18_FailedWriteLeavesNoTrace ==
    [][(/\ result'.op \in {"create_with_relations", "update_knowledge"}
        /\ IsException(result'.out))
        => UNCHANGED dbVars]_vars

\* every stored entry has its `create` audit row
EntryHasCreateAudit ==
    \A e \in DOMAIN entries :
        \E i \in 1..Len(audits) : audits[i].knowledge_id = e /\ audits[i].action = "create"

\* an update that changed a stored entry appended an `update` audit row for it
UpdateHasAudit ==
    (result'.op = "update_knowledge" /\ entries' # entries)
        => /\ Len(audits') = Len(audits) + 1
           /\ audits'[Len(audits')].action = "update"
           /\ audits'[Len(audits')].knowledge_id \in DOMAIN entries
           /\ entries'[audits'[Len(audits')].knowledge_id]
                 # entries[audits'[Len(audits')].knowledge_id]

\* C19: in every committed state each entry has its `create` audit row, and each
\* update that was applied has its `update` audit row, also when an audit write fails
C19_EntryAndAuditRowTogether ==
    /\ []EntryHasCreateAudit
    /\ [][UpdateHasAudit]_vars

(***************************************************************************)
(* The audit log                                                           *)
(***************************************************************************)
AuditActions == {"create", "update", "delete", "access", "cleanup"}

\* the audit rows of the entries that are still stored after the step
KeptAudits == SelectSeq(audits, LAMBDA a : a.knowledge_id \in DOMAIN entries')

\* C20: across create, update, search, cleanup of old entries, cleanup of orphans,
\* batch creation, reindexing and deletion, the audit rows of every entry that is still
\* stored stay in the log, unchanged and in their order, new rows only come after
\* them, and every row's action is one of create, update, delete, access, cleanup
C20_AuditLogAppendOnly ==
    /\ [](\A i \in 1..Len(audits) : audits[i].action \in AuditActions)
    /\ [][/\ Len(audits') >= Len(KeptAudits)
          /\ SubSeq(audits', 1, Len(KeptAudits)) = KeptAudits]_vars

\* the cleanup of old entries has just run over two entries, one of them old, and
\* both `create` rows are in the log
C20_Witness ==
    /\ result.op = "cleanup_old_entries"
    /\ Cardinality(DOMAIN entries) = 2
    /\ \E e \in DOMAIN entries :
          entries[e].last_accessed_at # None /\ entries[e].last_accessed_at < now - 1
    /\ Len(audits) = 2
    /\ \A e \in DOMAIN entries :
          \E i \in 1..Len(audits) : audits[i] = AuditRow(e, CurrentUser, "create")

(***************************************************************************)
(* Entry update: relations and embedding                                   *)
(***************************************************************************)
\* the concepts a list of paths resolves to
ResolvedConcepts(cs, paths) == {get_by_path(cs, paths[i]) : i \in 1..Len(paths)}

\* C21: an update of a stored entry whose patch provides tags = T leaves the entry with
\* exactly the tag names of T, and one whose patch provides concepts = C (paths that
\* all resolve) leaves it with exactly the concepts C resolves to, T = [] and C = []
\* clearing the set; a patch that does not provide tags (concepts) leaves that set as
\* it was
C21_UpdateReplacesRelations ==
    [][\A e \in DOMAIN entries, obj_in \in UpdatePatches, script \in Answered :
          update_knowledge(e, obj_in, script)
             => /\ IF HasField(obj_in, "tags")
                   THEN TagNamesOf(entries', tags', e) = Range(obj_in.tags)
                   ELSE entries'[e].tags = entries[e].tags
                /\ IF HasField(obj_in, "concepts")
                   THEN None \notin ResolvedConcepts(concepts, obj_in.concepts)
                           => entries'[e].concepts
                                 = ResolvedConcepts(concepts, obj_in.concepts)
                   ELSE entries'[e].concepts = entries[e].concepts]_vars

\* C22: an update of a stored entry whose patch changes content stores the vector the
\* provider returns for the new content as the entry's embedding; an update whose
\* patch does not touch content leaves the stored embedding as it was
C22_UpdateRegeneratesEmbedding ==
    [][\A e \in DOMAIN entries, obj_in \in StorePatches, script \in ProviderScripts :
          update_knowledge(e, obj_in, script)
             => IF HasField(obj_in, "content") /\ obj_in.content # entries[e].content
                THEN script[Len(script)].kind = "ok"
                        => entries'[e].embedding = Stored(script[Len(script)].vec)
                ELSE entries'[e].embedding = entries[e].embedding]_vars

(***************************************************************************)
(* Filtered search                                                         *)
(***************************************************************************)
\* the entry passes the filters that were supplied
PassesFilters(es, ts, cs, e, filter_tags, filter_concepts) ==
    /\ filter_tags # {} => \E t \in es[e].tags : ts[t].name \in filter_tags
    /\ filter_concepts # {} => \E c \in es[e].concepts : cs[c].name \in filter_concepts

\* C23: every entry a search returns has a non-null embedding, has a tag named in
\* filter_tags when the tag filter is given and a concept named in filter_concepts when
\* the concept filter is given (both when both are given); no entry is returned twice,
\* and the entries returned are as many as the limit allows of those that pass the
\* filters and reach the threshold
C23_SearchAppliesAllFilters ==
    [][(result'.op = "search_similar" /\ result'.out.status = 200)
          => LET a == result'.arg
                 ret == result'.out.ret
                 Q == {e \in Qualifying(entries, a.query_embedding, a.min_similarity) :
                          PassesFilters(entries, tags, concepts, e, a.filter_tags,
                                        a.filter_concepts)}
             IN /\ \A i \in 1..Len(ret) : ret[i] \in Q
                /\ ~HasDuplicates(ret)
                /\ Len(ret) = Min(a.limit, Cardinality(Q))]_vars

\* a search with both filters returned entry 2 alone: entry 1 has a matching tag only,
\* entry 2 has two matching tags and a matching concept
C23_Witness ==
    /\ result.op = "search_similar"
    /\ result.arg.filter_tags = {"ta", "tb"}
    /\ result.arg.filter_concepts = {"dog"}
    /\ result.arg.limit = 2
    /\ result.out.ret = <<2>>
    /\ DOMAIN entries = {1, 2}
    /\ ~entries[1].embedding.isnull
    /\ entries[1].tags = {1} /\ entries[1].concepts = {1}
    /\ entries[2].tags = {1, 2} /\ entries[2].concepts = {2}

(***************************************************************************)
(* Cleanup of old entries                                                  *)
(***************************************************************************)
\* the entries whose last access is older than now - days
OldEntries(es, t, days) ==
    {e \in DOMAIN es : es[e].last_accessed_at # None /\ es[e].last_accessed_at < t - days}

\* C24: cleanup_old_entries(days) deletes no entry and changes no entry field, and it
\* appends exactly one `cleanup` audit row, with user_id null, for each entry whose
\* last_accessed_at is older than now - days, and none for any other entry
C24_CleanupOldIsAuditOnly ==
    [][result'.op = "cleanup_old_entries"
          => LET old == OldEntries(entries, now, result'.arg.days)
                 n == Len(audits)
             IN /\ entries' = entries
                /\ Len(audits') = n + Cardinality(old)
                /\ SubSeq(audits', 1, n) = audits
                /\ \A e \in old :
                      \E i \in (n + 1)..Len(audits') :
                          audits'[i] = AuditRow(e, None, "cleanup")]_vars

(***************************************************************************)
(* Last access                                                             *)
(***************************************************************************)
\* a search stamps the entries it returns, and only those
SearchStampsReturned ==
    (result'.op = "search_similar" /\ now' = now)
        => /\ DOMAIN entries' = DOMAIN entries
           /\ \A e \in DOMAIN entries :
                 entries'[e] =
                    IF result'.out.status = 200 /\ e \in Range(result'.out.ret)
                    THEN [entries[e] EXCEPT !.last_accessed_at = now]
                    ELSE entries[e]

\* an operation other than a search leaves last_accessed_at of the entries it keeps
OthersKeepLastAccess ==
    result'.op # "search_similar"
        => \A e \in DOMAIN entries \cap DOMAIN entries' :
              entries'[e].last_accessed_at = entries[e].last_accessed_at

\* no entry without a last access is selected as old, whatever days and the time
NeverAccessedNeverOld ==
    \A days \in 1..MaxNow, e \in DOMAIN entries :
        entries[e].last_accessed_at = None
            => \A i \in DOMAIN CleanupOldQuery(entries, now - days) :
                  CleanupOldQuery(entries, now - days)[i] # e

\* C30: a search sets last_accessed_at on exactly the entries it returns and leaves
\* it unchanged on every other entry, no other operation sets it, and an entry whose
\* last_accessed_at is unset is never selected by cleanup_old_entries(days), for any
\* days and any elapsed time: with only such entries stored the cleanup selects nothing
\* and returns
C30_OnlySearchSetsLastAccess ==
    /\ []NeverAccessedNeverOld
    /\ [][SearchStampsReturned]_vars
    /\ [][OthersKeepLastAccess]_vars
    /\ [][(/\ result'.op = "cleanup_old_entries"
           /\ \A e \in DOMAIN entries : entries[e].last_accessed_at = None)
             => result'.out.status = 200]_vars

\* two days after a search that returned entry 1 and not entry 2, the cleanup of
\* entries older than a day has run: entry 1 was selected, entry 2 was never accessed
C30_Witness ==
    /\ result.op = "cleanup_old_entries"
    /\ result.arg.days = 1
    /\ DOMAIN entries = {1, 2}
    /\ entries[1].last_accessed_at = 1
    /\ entries[2].last_accessed_at = None
    /\ now = 3
    /\ CleanupOldQuery(entries, now - 1) = <<1>>

(***************************************************************************)
(* Reindexing                                                              *)
(***************************************************************************)
NullRows(es) == AscSeq({e \in DOMAIN es : es[e].embedding.isnull})

\* the provider's answer to the chunk that held row i, in the run that returned
AnswerFor(answers, batch_size, i) == LastRun(answers)[((i - 1) \div batch_size) + 1]

Embedded(row) == ~row.embedding.isnull /\ row.embedding.vec # <<>>

\* C29: every entry whose embedding generation failed, at create, at batch creation or
\* in an earlier pass, is selected by the next reindex pass: a pass whose provider call
\* succeeds leaves every stored entry with a non-empty embedding
C29_ReindexRepairsFailedEmbeddings ==
    [][\A script \in BatchScripts, vectorOf \in [EntryIds -> ProviderVectors] :
          (reindex_embeddings(script, vectorOf) /\ script[Len(script)] = "ok")
             => \A e \in DOMAIN entries' : Embedded(entries'[e])]_vars

(***************************************************************************)
(* Ancestors and descendants                                               *)
(***************************************************************************)
ProperDescendants(cs, c) == {x \in DOMAIN cs : c \in ProperAncestors(cs, x)}

\* the list is the chain of parents from c's parent up to a root
IsParentChain(cs, c, chain) ==
    /\ Range(chain) = ProperAncestors(cs, c)
    /\ Len(chain) = Cardinality(ProperAncestors(cs, c))
    /\ \A i \in 1..Len(chain) :
          chain[i] = cs[IF i = 1 THEN c ELSE chain[i - 1]].parent_id
    /\ chain # <<>> => cs[chain[Len(chain)]].parent_id = None

\* the list holds the proper descendants of c once each, nearer ones first
IsLevelOrder(cs, c, list) ==
    /\ Range(list) = ProperDescendants(cs, c)
    /\ ~HasDuplicates(list)
    /\ \A i \in 1..Len(list), j \in 1..Len(list) :
          i < j => Depth(cs, list[i]) <= Depth(cs, list[j])

\* C26: in every concept forest, get_ancestors(X) returns exactly the proper ancestors
\* of X from its parent up to the root, get_descendants(Y) returns exactly the concepts
\* that have Y as a proper ancestor, children before grandchildren, so that Y is among
\* the ancestors of X exactly when X is among the descendants of Y; both end, with an
\* empty list for a concept without parent or without children, and that is what the
\* two endpoints return
C26_AncestorsAndDescendantsAgree ==
    /\ \A X \in DOMAIN concepts :
          /\ GetAncestors(concepts, X).ended
          /\ IsParentChain(concepts, X, GetAncestors(concepts, X).ret)
          /\ GetDescendants(concepts, X).ended
          /\ IsLevelOrder(concepts, X, GetDescendants(concepts, X).ret)
          /\ \A Y \in DOMAIN concepts :
                Y \in Range(GetAncestors(concepts, X).ret)
                   <=> X \in Range(GetDescendants(concepts, Y).ret)
    /\ result.op = "get_ancestors"
          => /\ result.out.status = 200
             /\ result.arg.concept_id \in DOMAIN concepts
                   => IsParentChain(concepts, result.arg.concept_id, result.out.ret)
    /\ result.op = "get_descendants"
          => /\ result.out.status = 200
             /\ result.arg.concept_id \in DOMAIN concepts
                   => IsLevelOrder(concepts, result.arg.concept_id, result.out.ret)

\* the descendants of a root with children 2 and 4 and grandchild 3 under 2 were
\* returned, the children first
C26_Witness ==
    /\ result.op = "get_descendants"
    /\ result.arg.concept_id = 1
    /\ result.out.ret = <<2, 4, 3>>
    /\ GetAncestors(concepts, 3).ret = <<2, 1>>
    /\ GetAncestors(concepts, 1).ret = <<>>
    /\ GetDescendants(concepts, 4).ret = <<>>

(***************************************************************************)
(* Concurrent requests                                                     *)
(***************************************************************************)
\* an error that tells the caller of a conflict, not of a failure of the server
IsConflict(out) == out.status \in {400, 409}

\* C27: under every interleaving of two get_or_create requests for a name, never more
\* than one tag row has that name, and a request that ends with an error ends with a
\* conflict error, distinct from the error of a failed write
C27_ConcurrentGetOrCreateConflict ==
    /\ OneTagRowPerName
    /\ \A r \in DOMAIN requests :
          (requests[r].op = "get_or_create" /\ requests[r].pc = "done")
             => IF IsException(requests[r].out) THEN IsConflict(requests[r].out)
                ELSE Len(requests[r].out.ret) = 1

\* C28: under every interleaving of two reparent requests, each doing its cycle walk
\* and then its write, no concept is ever its own ancestor
C28_ConcurrentReparentKeepsForest ==
    \A c \in DOMAIN concepts : c \notin ProperAncestors(concepts, c)

====
